---- MODULE Spec2Model ----
(***************************************************************************)
(* SonicCompass (src/App.jsx): the concert search flow fetchConcerts.      *)
(*                                                                         *)
(* One invocation of the async function fetchConcerts is a "flow".  A flow *)
(* runs in synchronous segments separated by its awaits (a fetch, a        *)
(* setTimeout); each segment is one action.  The React state of App is the *)
(* global state; the local variables of an invocation are flow[f].         *)
(* Strings built from templates are sequences of their pieces, '' is <<>>. *)
(***************************************************************************)
EXTENDS Integers, Sequences, FiniteSets, TLC

\* ------------------------------------------------------------------ bounds
MaxFlows == 1
MaxResults == 2
MaxEvents == 1
MaxSongs == 2

\* ------------------------------------------------------- program constants
MAX_RETRIES == 2

\* JS null / undefined for a number-valued local: a number n is <<n>>.
Null == <<>>

Num(n) == <<n>>

\* JS undefined for a string-valued property.
Undefined == "undefined"

\* (mutation) a check against undefined only: '' passes as configured
FalsyStr_OnlyUndefined(s) == s = Undefined

\* JS truthiness of a string-or-undefined value (!x).
FalsyStr(s) == s = "" \/ s = Undefined

\* JS truthiness of a number-or-null value (!x): null and 0 are falsy.
FalsyNum(x) == x = Null \/ x = Num(0)

Flows == 1..MaxFlows

\* ------------------------------------------------------------ environment
ApiKeys == {"", Undefined, "key"}

Cities == {"", "Spartanburg"}

Radii == {"25", "50"}

Lats == {0, 34}

Lngs == {0, 82}

Statuses == {"401", "500"}

SeqsUpTo(S, n) == UNION {[1..k -> S] : k \in 0..n}

GeoResults == [geometry : [lat : Lats, lng : Lngs]]

\* What the geocoding provider can answer to one request.
GeoResponses ==
    {[kind |-> "neterr", status |-> "", hasResults |-> FALSE, results |-> <<>>]}
    \cup {[kind |-> "http", status |-> s, hasResults |-> FALSE, results |-> <<>>] : s \in Statuses}
    \cup {[kind |-> "ok", status |-> "200", hasResults |-> FALSE, results |-> <<>>]}
    \cup {[kind |-> "ok", status |-> "200", hasResults |-> TRUE, results |-> rs] :
            rs \in SeqsUpTo(GeoResults, MaxResults)}

FullEvent ==
    [id |-> "e1", name |-> "Artist A", venueName |-> "The Ritz", venueCity |-> "Raleigh",
     stateCode |-> "NC", genre |-> "Rock", localDate |-> "2026-01-01",
     info |-> "Doors 7pm", url |-> "u1"]

BareEvent ==
    [id |-> "e2", name |-> "Artist B", venueName |-> Undefined, venueCity |-> Undefined,
     stateCode |-> Undefined, genre |-> Undefined, localDate |-> Undefined,
     info |-> Undefined, url |-> Undefined]

ProviderEvents == {FullEvent, BareEvent}

\* What the event-search provider can answer to one request.
TmResponses ==
    {[kind |-> "neterr", status |-> "", embedded |-> FALSE, events |-> <<>>]}
    \cup {[kind |-> "http", status |-> s, embedded |-> FALSE, events |-> <<>>] : s \in Statuses}
    \cup {[kind |-> "ok", status |-> "200", embedded |-> FALSE, events |-> <<>>]}
    \cup {[kind |-> "ok", status |-> "200", embedded |-> TRUE, events |-> es] :
            es \in SeqsUpTo(ProviderEvents, MaxEvents)}

\* Provider events of every shape: each of the optional fields present or not.
AnyProviderEvents ==
    [id : {"e1"}, name : {"Artist A"}, venueName : {Undefined, "The Ritz"},
     venueCity : {Undefined, "Raleigh"}, stateCode : {Undefined, "NC"},
     genre : {Undefined, "Rock"}, localDate : {Undefined, "2026-01-01"},
     info : {Undefined, "Doors 7pm"}, url : {"u1"}]

AnyTmResponses ==
    {resp \in TmResponses : resp.events = <<>>}
    \cup {[kind |-> "ok", status |-> "200", embedded |-> TRUE, events |-> es] :
            es \in SeqsUpTo(AnyProviderEvents, MaxEvents) \ {<<>>}}

Pending == [kind |-> "pending"]

\* What the generative provider can put into an item of its array: the two
\* properties asked for, or an object without them.
SongItems ==
    [artistName : {"Artist A", "Artist B"}, songTitle : {"Hit"}]
    \cup {[artistName |-> Undefined, songTitle |-> Undefined]}

\* What the generative provider (or the network) can answer: no response, a
\* body that is not JSON, a JSON body without candidates or with empty parts,
\* and a full envelope whose text is undefined, is not JSON, is a JSON object,
\* or is a JSON array of items.
GeminiResponses ==
    {[kind |-> k, envelope |-> "", text |-> "", songs |-> <<>>] : k \in {"neterr", "notjson"}}
    \cup {[kind |-> "json", envelope |-> e, text |-> "", songs |-> <<>>] :
            e \in {"noCandidates", "emptyParts"}}
    \cup {[kind |-> "json", envelope |-> "full", text |-> t, songs |-> <<>>] :
            t \in {Undefined, "notjson", "object"}}
    \cup {[kind |-> "json", envelope |-> "full", text |-> "array", songs |-> ss] :
            ss \in SeqsUpTo(SongItems, MaxSongs)}

\* Video ids as the video search returns them, as strings of characters: the
\* provider's ids are made of letters, digits, '-' and '_'.
V1 == <<"a", "-", "1">>

V2 == <<"_", "B", "2">>

\* What the video search (or the network) can answer: no response, a body that
\* is not JSON, and JSON with or without items[0].id.videoId (an absent id is
\* Null).
YouTubeResponses ==
    {[kind |-> k, videoId |-> Null] : k \in {"neterr", "notjson"}}
    \cup {[kind |-> "json", videoId |-> v] : v \in {Null, V1}}

\* What the playlists and playlistItems endpoints (or the network) can answer:
\* no response, an error status with a JSON error body, an error status with
\* a body that is not JSON, and success with the created resource.
PlaylistApiResponses ==
    {[kind |-> "neterr", status |-> "", body |-> "", id |-> Undefined, title |-> Undefined],
     [kind |-> "http", status |-> "403", body |-> "json", id |-> Undefined, title |-> Undefined],
     [kind |-> "http", status |-> "500", body |-> "notjson", id |-> Undefined, title |-> Undefined],
     [kind |-> "ok", status |-> "200", body |-> "json", id |-> "PL1", title |-> "SonicCompass Hype"]}

\* The options of the genre select, as strings of characters ('' is <<>>).
Genres == {<<>>, <<"I", "n", "d", "i", "e">>, <<"R", "&", "B">>}

\* The options of the date filter select.
DateFilters == {"", "30", "60", "90"}

\* Offsets of the browser's local time from UTC, in minutes (east positive).
TimezoneOffsets == {-300, 0, 120}

\* An instant: whole seconds since 2026-01-01T00:00:00Z and the milliseconds
\* within the second.
At(day, h, m, sec, ms) == [s |-> ((day * 24 + h) * 60 + m) * 60 + sec, ms |-> ms]

\* The instants at which a search may build its request: 10 March 12:34:56
\* at the start and at the last millisecond of the second, 31 January late in
\* the evening and at the last millisecond of the month, 15 December.
Instants ==
    {At(68, 12, 34, 56, 0), At(68, 12, 34, 56, 999), At(30, 23, 30, 5, 250),
     At(30, 23, 59, 59, 999), At(348, 8, 5, 9, 500)}

\* The clock one millisecond later.
Tick(t) == IF t.ms = 999 THEN [s |-> t.s + 1, ms |-> 0] ELSE [s |-> t.s, ms |-> t.ms + 1]

\* What a second `new Date()` can read right after a first one read t.
ClockAfter(t) == {t, Tick(t)}

VARIABLES
    concerts,            \* useState([])
    selectedConcert,     \* useState(null): Null or the id of a concert
    playlist,            \* useState([])
    loadingConcerts,     \* useState(false)
    error,               \* useState('')
    messageBoxContent,   \* useState('')
    isMessageBoxVisible, \* useState(false)
    city,                \* useState('Spartanburg'): the City input as the user left it
    searchRadius,        \* useState('50'): the radius option chosen
    genre,               \* useState(''): the genre option chosen
    dateFilter,          \* useState(''): the date filter option chosen
    timezoneOffset,      \* the browser's time zone, minutes east of UTC
    TICKETMASTER_API_KEY,
    OPENCAGE_API_KEY,
    YOUTUBE_API_KEY,
    loadingPlaylist,     \* useState(false)
    googleUser,          \* useState(null): Null or the signed-in user
    youtubeAccessToken,  \* useState(null): Null or the OAuth access token
    generativeProvider,  \* a deterministic provider: its answer to each prompt (<<>>: any answer)
    videoProvider,       \* a deterministic provider: its answer to each search term (<<>>: any answer)
    gen,                 \* locals of each generatePlaylistFromConcerts invocation
    pub,                 \* locals of each createYouTubeMusicPlaylist invocation
    firebaseConfig,      \* the injected Firebase configuration: complete or not
    auth,                \* useState(null): Null or the Firebase Auth instance
    sign,                \* each handleGoogleSignIn / handleGoogleSignOut invocation
    flow,                \* locals of each fetchConcerts invocation
    fetches,             \* fetch() calls whose promise has not been consumed
    timers               \* setTimeout() callbacks not yet run

vars == <<concerts, selectedConcert, playlist, loadingConcerts, error,
          messageBoxContent, isMessageBoxVisible, city, searchRadius, genre,
          dateFilter, timezoneOffset, TICKETMASTER_API_KEY, OPENCAGE_API_KEY,
          YOUTUBE_API_KEY, loadingPlaylist, googleUser, youtubeAccessToken,
          generativeProvider, videoProvider, gen, pub, firebaseConfig, auth, sign,
          flow, fetches, timers>>

\* What the search, the generation, the publish and the check boxes leave as
\* it is.
config == <<city, searchRadius, genre, dateFilter, timezoneOffset,
            TICKETMASTER_API_KEY, OPENCAGE_API_KEY, YOUTUBE_API_KEY,
            googleUser, youtubeAccessToken, generativeProvider, videoProvider,
            firebaseConfig, auth, sign>>

generation == <<loadingPlaylist, gen, pub>>

\* What the sign-in, the sign-out and the auth-state listener leave as it is,
\* besides the lists and the invocations of the other handlers.
settings == <<city, searchRadius, genre, dateFilter, timezoneOffset,
              TICKETMASTER_API_KEY, OPENCAGE_API_KEY, YOUTUBE_API_KEY,
              generativeProvider, videoProvider, firebaseConfig>>

\* ---------------------------------------------------------------- texts
MissingTicketmasterKeyMsg ==
    <<"Missing Ticketmaster API Key. Please set VITE_TICKETMASTER_API_KEY environment variable in Vercel.">>

MissingOpenCageKeyMsg ==
    <<"Missing OpenCage API Key. Please set VITE_OPENCAGE_API_KEY environment variable in Vercel.">>

EnterCityMsg == <<"Please enter a city to search for concerts.">>

\* error.message of a rejected fetch (TypeError of the browser).
NetworkErrorMessage == <<"Failed to fetch">>

OpenCageHttpErrorMessage(resp) ==
    <<"OpenCage Geocoding API HTTP error! status: ", resp.status, ", response: ", "<body>">>

CouldNotFindMessage(c) == <<"Could not find coordinates for ", c>>

GeoExhaustedError(message) ==
    <<"Failed to get location coordinates after 3 attempts: ">> \o message
        \o <<". Please check your OpenCage API key and network connection.">>

\* (mutation) the notification without the cause
GeoExhaustedBox_NoCause(message) ==
    <<"Failed to get location coordinates. Please check your OpenCage API key and network connection. Error: ">>

GeoExhaustedBox(message) ==
    <<"Failed to get location coordinates. Please check your OpenCage API key and network connection. Error: ">>
        \o message

GeoNotFoundMsg(c) ==
    <<"Failed to get location coordinates for ", c, ". Please try a more specific city name.">>

TicketmasterHttpErrorMessage(resp) == <<"Ticketmaster API HTTP error! status: ", resp.status>>

NoConcertsMsg ==
    <<"No concerts found for your search criteria. Try a different city, widen the radius, or adjust the date range!">>

TmExhaustedError(message) ==
    <<"Failed to fetch concerts after 3 attempts: ">> \o message
        \o <<". Please check your Ticketmaster API key and network connection.">>

NoConcertsToGenerateMsg ==
    <<"No concerts found to generate a playlist from. Please search for concerts first.">>

NoUniqueArtistsMsg ==
    <<"No unique artists found in the current concert list to generate a playlist.">>

LlmUnexpectedMsg == <<"LLM response was not as expected. Could not generate playlist.">>

GenerationFailedMsg == <<"Failed to generate playlist. Please try again.">>

NoSongSelectedMsg ==
    <<"Please select at least one song to create a YouTube Music playlist.">>

SignInFirstMsg ==
    <<"Please sign in with Google and authorize YouTube access to create a playlist.">>

YouTubeKeyMissingMsg ==
    <<"Please ensure your YOUTUBE_API_KEY is set in the code to fetch video IDs for playlist creation.">>

PlaylistCreatedMsg(title) == <<"Playlist \"", title, "\" created! Now adding songs...">>

NoVideoFoundMsg(song) ==
    <<"Could not find video for \"", song.artistName, " - ", song.songTitle, "\". Skipping.">>

SearchErrorMsg(song) ==
    <<"Error searching for \"", song.artistName, " - ", song.songTitle, "\". Skipping.">>

AddFailedMsg(song) == <<"Failed to add \"", song.songTitle, "\" to playlist. Skipping.">>

PublishedMsg(playlistId) ==
    <<"YouTube Music playlist created successfully! You can view it here: https://music.youtube.com/playlist?list=",
      playlistId>>

PublishErrorMsg(message) ==
    <<"Error creating YouTube Music playlist: ", message,
      ". Please ensure you are signed in and have granted YouTube access.">>

AuthNotInitializedMsg == <<"Firebase Auth not initialized.">>

SignedInMsg ==
    <<"Successfully signed in with Google! You can now create YouTube Music playlists.">>

UnauthorizedDomainInstructions(message) ==
    <<"Google Sign-In failed: ", message,
      ".\n\nThis means the domain your app is running on is not authorized in your Firebase project.",
      "<instructions>">>

SignInFailedError(message) ==
    <<"Google Sign-In failed: ", message,
      ". Make sure Google Auth is enabled in Firebase and YouTube Data API is enabled in Google Cloud.">>

SignInFailedBox(message) ==
    <<"Google Sign-In failed: ", message,
      ". Please check your Firebase Authentication settings (Google provider enabled) and YouTube Data API status in Google Cloud.">>

SignedOutMsg == <<"Successfully signed out of Google.">>

SignOutFailedError(message) == <<"Sign out failed: ", message>>

FirebaseAuthErrorMsg == <<"Failed to authenticate with Firebase.">>

FirebaseConfigErrorMsg ==
    <<"Firebase configuration is missing or incorrect: ",
      "Firebase configuration is incomplete. Missing API Key or Project ID.",
      ". Please ensure VITE_FIREBASE_ environment variables are set correctly in Vercel.">>

TmExhaustedBox(message) ==
    <<"Failed to fetch concerts. Please check your Ticketmaster API key and network connection. Error: ">>
        \o message

\* ------------------------------------------------------- pure helpers
\* (mutation) an off-by-one loop bound: one attempt too many
LoopContinues_OneMore(i) == i <= MAX_RETRIES + 1

\* for (let i = 0; i <= MAX_RETRIES; i++): the loop condition.
LoopContinues(i) == i <= MAX_RETRIES

\* if (i === MAX_RETRIES) in the catch blocks.
IsLastAttempt(i) == i = MAX_RETRIES

\* (mutation) the backoff computed from the zero-based index
Backoff_ZeroBased(i) == 1000 * i

\* setTimeout(resolve, 1000 * (i + 1))
Backoff(i) == 1000 * (i + 1)

\* (mutation) the last result instead of the first
FirstResult_Last(results) == results[Len(results)]

\* opencageData.results[0]
FirstResult(results) == results[1]

\* opencageData.results && opencageData.results.length > 0, after response.ok
GeoSucceeds(resp) == resp.kind = "ok" /\ resp.hasResults /\ Len(resp.results) > 0

\* message of the Error caught by the geocoding catch block
GeoThrown(resp, c) ==
    IF resp.kind = "neterr" THEN NetworkErrorMessage
    ELSE IF resp.kind = "http" THEN OpenCageHttpErrorMessage(resp)
    ELSE CouldNotFindMessage(c)

\* message of the Error caught by the event-search catch block
TmThrown(resp) ==
    IF resp.kind = "neterr" THEN NetworkErrorMessage
    ELSE TicketmasterHttpErrorMessage(resp)

\* (mutation) an answer without events is thrown like a failed one, as the
\* geocoding loop does with an answer without results
TmOk_NeedsEvents(resp) == resp.kind = "ok" /\ resp.embedded

\* response.ok of the event-search answer (a rejected fetch has no response)
TmOk(resp) == resp.kind = "ok"

\* data._embedded && data._embedded.events: an empty array is truthy
TmHasEvents(resp) == resp.embedded

\* x || dflt for a string-or-undefined x
OrElse(x, dflt) == IF FalsyStr(x) THEN dflt ELSE x

\* (mutation) the description is passed on as the provider sent it
NormalizeEvent_RawDescription(event) ==
    [id |-> event.id,
     artist |-> event.name,
     venue |-> OrElse(event.venueName, "Unknown Venue"),
     date |-> OrElse(event.localDate, "Date TBD"),
     genre |-> OrElse(event.genre, "Various"),
     location |-> IF FalsyStr(OrElse(event.stateCode, ""))
                  THEN <<OrElse(event.venueCity, "Unknown City")>>
                  ELSE <<OrElse(event.venueCity, "Unknown City"), ", ", event.stateCode>>,
     description |-> event.info,
     url |-> event.url]

\* data._embedded.events.map(event => ({...}))
NormalizeEvent(event) ==
    [id |-> event.id,
     artist |-> event.name,
     venue |-> OrElse(event.venueName, "Unknown Venue"),
     date |-> OrElse(event.localDate, "Date TBD"),
     genre |-> OrElse(event.genre, "Various"),
     location |-> IF FalsyStr(OrElse(event.stateCode, ""))
                  THEN <<OrElse(event.venueCity, "Unknown City")>>
                  ELSE <<OrElse(event.venueCity, "Unknown City"), ", ", event.stateCode>>,
     description |-> OrElse(event.info, "No additional info available."),
     url |-> event.url]

NormalizeEvents(events) == [k \in 1..Len(events) |-> NormalizeEvent(events[k])]

\* ------------------------------------------------------------- Date
\* Days of the months of 2025..2027, none of which is a leap year.
MonthLengths == <<31, 28, 31, 30, 31, 30, 31, 31, 30, 31, 30, 31>>

RECURSIVE DaysBeforeMonth(_)
DaysBeforeMonth(m) == IF m = 1 THEN 0 ELSE DaysBeforeMonth(m - 1) + MonthLengths[m - 1]

\* The local wall clock of an instant: days since 1 January 2026 and the
\* second of the day.
LocalDay(date, tz) == (date.s + 60 * tz) \div 86400

LocalSecondOfDay(date, tz) == (date.s + 60 * tz) % 86400

LocalDayOfYear(date, tz) == LocalDay(date, tz) % 365

getFullYear(date, tz) == 2026 + (LocalDay(date, tz) \div 365)

\* zero-based, as in JS
getMonth(date, tz) ==
    (CHOOSE m \in 1..12 :
        /\ DaysBeforeMonth(m) <= LocalDayOfYear(date, tz)
        /\ LocalDayOfYear(date, tz) < DaysBeforeMonth(m) + MonthLengths[m]) - 1

getDate(date, tz) == LocalDayOfYear(date, tz) - DaysBeforeMonth(getMonth(date, tz) + 1) + 1

getHours(date, tz) == LocalSecondOfDay(date, tz) \div 3600

getMinutes(date, tz) == (LocalSecondOfDay(date, tz) % 3600) \div 60

getSeconds(date, tz) == LocalSecondOfDay(date, tz) % 60

\* date.setDate(n): day n of the month the date is in (n may run past the
\* month's end), at the same local time of day.
setDate(date, n, tz) == [date EXCEPT !.s = @ + (n - getDate(date, tz)) * 86400]

Digit(d) == <<"0", "1", "2", "3", "4", "5", "6", "7", "8", "9">>[d + 1]

\* String(n) for a natural number n
RECURSIVE Digits(_)
Digits(n) == IF n < 10 THEN <<Digit(n)>> ELSE Append(Digits(n \div 10), Digit(n % 10))

\* const pad = (num) => num < 10 ? '0' + num : num, as concatenated
pad(num) == IF num < 10 THEN <<"0">> \o Digits(num) ELSE Digits(num)

\* toIsoString(date): the local getters, then 'Z'
toIsoString(date, tz) ==
    Digits(getFullYear(date, tz)) \o <<"-">> \o pad(getMonth(date, tz) + 1)
        \o <<"-">> \o pad(getDate(date, tz))
        \o <<"T">> \o pad(getHours(date, tz))
        \o <<":">> \o pad(getMinutes(date, tz))
        \o <<":">> \o pad(getSeconds(date, tz))
        \o <<"Z">>

\* ------------------------------------------------------------- URLs
\* encodeURIComponent(str) on the characters the genre options contain
encodeURIComponent(str) == [k \in 1..Len(str) |-> IF str[k] = "&" THEN "%26" ELSE str[k]]

\* (mutation) Indie is sent as the provider's genre name
KeywordFor_IndieAsAlternative(g) ==
    IF g = <<"I", "n", "d", "i", "e">> THEN <<"A", "l", "t">> ELSE g

\* let keywordForTicketmaster = genre
KeywordFor(g) == g

\* the days added by the switch on dateFilter (0: the default case)
WindowDays(filter) ==
    IF filter = "30" THEN 30 ELSE IF filter = "60" THEN 60 ELSE IF filter = "90" THEN 90 ELSE 0

\* endDate after the switch: new Date() read endDate0, then
\* endDate.setDate(startDate.getDate() + N)
EndDate(filter, startDate, endDate0, tz) ==
    IF WindowDays(filter) = 0 THEN endDate0
    ELSE setDate(endDate0, getDate(startDate, tz) + WindowDays(filter), tz)

\* the request URL of the geocoding call
OpenCageUrl(c, key) ==
    [host |-> "api.opencagedata.com", q |-> c, key |-> key, latlong |-> Null, radius |-> "",
     keyword |-> <<>>, startDateTime |-> <<>>, endDateTime |-> <<>>]

\* The request URL of the event search (lines 178-218).  An optional parameter
\* that is not appended is <<>>; the keyword parameter, when appended, is
\* <<value>>.  startDate and endDate0 are what the two `new Date()` read.
TicketmasterUrl(latitude, longitude, radius, key, g, filter, startDate, endDate0, tz) ==
    [host |-> "app.ticketmaster.com", q |-> "", key |-> key,
     latlong |-> IF ~FalsyNum(latitude) /\ ~FalsyNum(longitude)
                 THEN <<latitude[1], longitude[1]>> ELSE Null,
     radius |-> IF ~FalsyStr(radius) THEN radius ELSE "",
     keyword |-> IF g # <<>> THEN <<encodeURIComponent(KeywordFor(g))>> ELSE <<>>,
     startDateTime |-> IF ~FalsyStr(filter) THEN toIsoString(startDate, tz) ELSE <<>>,
     endDateTime |-> IF ~FalsyStr(filter)
                     THEN toIsoString(EndDate(filter, startDate, endDate0, tz), tz)
                     ELSE <<>>]

\* (mutation) the retry is fired together with the attempt instead of after it
IssueFetch_WithRetry(outstanding, f, api, attempt, url) ==
    outstanding \cup
        {[flow |-> f, gen |-> 0, pub |-> 0, sign |-> 0, item |-> 0, api |-> api, attempt |-> a, url |-> url,
          resp |-> Pending] : a \in {attempt, attempt + 1}}

\* await fetch(url): one more outstanding request of flow f
IssueFetch(outstanding, f, api, attempt, url) ==
    outstanding \cup
        {[flow |-> f, gen |-> 0, pub |-> 0, sign |-> 0, item |-> 0, api |-> api, attempt |-> attempt, url |-> url,
          resp |-> Pending]}

\* (mutation) the text is stored but the box is not opened
ShowMessageBox_ContentOnly(message) ==
    /\ messageBoxContent' = message
    /\ UNCHANGED isMessageBoxVisible

\* showMessageBox(message)
ShowMessageBox(message) ==
    /\ messageBoxContent' = message
    /\ isMessageBoxVisible' = TRUE

IdleFlow ==
    [pc |-> "idle", i |-> 0, latitude |-> Null, longitude |-> Null,
     ticketmasterApiUrl |-> <<>>,
     \* <<list>> when this invocation replaced the list a later invocation had
     \* written
     overwrote |-> <<>>,
     \* whether another search was in progress at some time during this one
     overlapped |-> FALSE,
     \* the instant read by `const startDate = new Date()`, if it was read
     startDate |-> <<>>,
     \* history of the invocation: requests issued, outcome of each attempt
     \* ("failed" when it threw, "ok" otherwise), backoff waits completed
     geoCount |-> 0, geoLog |-> <<>>, geoWaits |-> <<>>,
     tmCount |-> 0, tmLog |-> <<>>, tmWaits |-> <<>>]

\* (mutation) the fetched records are added to the list
setConcerts_Merge(f, current, fetched) == current \o fetched

\* (mutation) an invocation that is no longer the latest one leaves the list alone
setConcerts_UnlessStale(f, current, fetched) ==
    IF \E g \in DOMAIN flow : g > f /\ flow[g].pc # "idle" THEN current ELSE fetched

\* setConcerts(fetched) called by invocation f: the new value of the list
setConcerts(f, current, fetched) == fetched

\* a later invocation than f has already written its results
NewerWrote(f) ==
    \E g \in DOMAIN flow :
        g > f /\ flow[g].tmLog # <<>> /\ flow[g].tmLog[Len(flow[g].tmLog)] = "ok"

\* The state after the first render.  The City input, the radius option and
\* the injected keys are whatever the user and the build left them to be; the
\* genre and date filters are as first rendered; the form is not edited while
\* searches run.
\* Nobody has signed in with Google.
SignedOut ==
    /\ googleUser = Null
    /\ youtubeAccessToken = Null

\* The effect of the first render has run with a complete configuration:
\* Firebase is initialised and its anonymous sign-in is done.
Mounted ==
    /\ firebaseConfig = "complete"
    /\ auth = <<[currentUser |-> "anonymous"]>>

\* The generative and the video-search provider are the live services: nothing
\* fixes their answers in advance.
LiveProviders ==
    /\ generativeProvider = <<>>
    /\ videoProvider = <<>>

Init ==
    /\ concerts = <<>>
    /\ selectedConcert = Null
    /\ playlist = <<>>
    /\ loadingConcerts = FALSE
    /\ error = <<>>
    /\ messageBoxContent = <<>>
    /\ isMessageBoxVisible = FALSE
    /\ city \in Cities
    /\ searchRadius \in Radii
    /\ genre = <<>>
    /\ dateFilter = ""
    /\ timezoneOffset = 0
    /\ TICKETMASTER_API_KEY \in ApiKeys
    /\ OPENCAGE_API_KEY \in ApiKeys
    /\ YOUTUBE_API_KEY = "key"
    /\ loadingPlaylist = FALSE
    /\ SignedOut
    /\ LiveProviders
    /\ gen = <<>>
    /\ pub = <<>>
    /\ Mounted
    /\ sign = <<>>
    /\ flow = [f \in Flows |-> IdleFlow]
    /\ fetches = {}
    /\ timers = {}

\* ------------------------------------------------------------- actions
SetFlow(f, rec) == flow' = [flow EXCEPT ![f] = rec]

\* invocation g is between its first await and its end
InProgress(g) == flow[g].pc \notin {"idle", "done"}

\* fetchConcerts(), from the call to its first await (lines 106-140), as its
\* caller runs it.  Invocations are numbered in call order.
CallFetchConcerts(f) ==
    /\ flow[f].pc = "idle"
    /\ \A g \in DOMAIN flow : g < f => flow[g].pc # "idle"
    /\ IF FalsyStr(TICKETMASTER_API_KEY)
       THEN /\ error' = MissingTicketmasterKeyMsg
            /\ ShowMessageBox(MissingTicketmasterKeyMsg)
            /\ SetFlow(f, [flow[f] EXCEPT !.pc = "done"])
            /\ UNCHANGED <<concerts, selectedConcert, playlist, loadingConcerts, fetches>>
       ELSE IF FalsyStr(OPENCAGE_API_KEY)
       THEN /\ error' = MissingOpenCageKeyMsg
            /\ ShowMessageBox(MissingOpenCageKeyMsg)
            /\ SetFlow(f, [flow[f] EXCEPT !.pc = "done"])
            /\ UNCHANGED <<concerts, selectedConcert, playlist, loadingConcerts, fetches>>
       ELSE IF FalsyStr(city)
       THEN /\ error' = EnterCityMsg
            /\ SetFlow(f, [flow[f] EXCEPT !.pc = "done"])
            /\ UNCHANGED <<concerts, selectedConcert, playlist, loadingConcerts, fetches,
                           messageBoxContent, isMessageBoxVisible>>
       ELSE /\ loadingConcerts' = TRUE
            /\ concerts' = setConcerts(f, concerts, <<>>)
            /\ selectedConcert' = Null
            /\ playlist' = <<>>
            /\ error' = <<>>
            /\ fetches' = IssueFetch(fetches, f, "opencage", 1, OpenCageUrl(city, OPENCAGE_API_KEY))
            /\ flow' = [g \in DOMAIN flow |->
                    IF g = f
                    THEN [flow[f] EXCEPT !.pc = "geoFetch", !.i = 0, !.geoCount = 1,
                                         !.overlapped = \E h \in DOMAIN flow : InProgress(h)]
                    ELSE IF InProgress(g) THEN [flow[g] EXCEPT !.overlapped = TRUE]
                    ELSE flow[g]]
            /\ UNCHANGED <<messageBoxContent, isMessageBoxVisible>>

\* fetchConcerts() called by the Search button's onClick.
fetchConcerts(f) ==
    /\ CallFetchConcerts(f)
    /\ UNCHANGED <<config, generation, timers>>

\* The geocoding provider (or the network) settles an outstanding request.
OpenCageAnswers(r, resp) ==
    /\ r \in fetches
    /\ r.api = "opencage"
    /\ r.resp = Pending
    /\ resp \in GeoResponses
    /\ fetches' = (fetches \ {r}) \cup {[r EXCEPT !.resp = resp]}
    /\ UNCHANGED <<concerts, selectedConcert, playlist, loadingConcerts, error,
                   messageBoxContent, isMessageBoxVisible, config, generation, flow, timers>>

\* Lines 168-226 after the geocoding loop: the coordinate check, the URL and
\* the first event-search request.  rec holds the locals at the loop's exit.
AfterGeocoding(f, rec, outstanding) ==
    IF FalsyNum(rec.latitude) \/ FalsyNum(rec.longitude)
    THEN /\ error' = GeoNotFoundMsg(city)
         /\ ShowMessageBox(GeoNotFoundMsg(city))
         /\ loadingConcerts' = FALSE
         /\ fetches' = outstanding
         /\ SetFlow(f, [rec EXCEPT !.pc = "done"])
    ELSE /\ \E startDate \in Instants : \E endDate0 \in ClockAfter(startDate) :
            LET url == TicketmasterUrl(rec.latitude, rec.longitude, searchRadius,
                                       TICKETMASTER_API_KEY, genre, dateFilter,
                                       startDate, endDate0, timezoneOffset)
            IN /\ fetches' = IssueFetch(outstanding, f, "ticketmaster", 1, url)
               /\ SetFlow(f, [rec EXCEPT !.pc = "tmFetch", !.i = 0, !.tmCount = 1,
                                         !.ticketmasterApiUrl = <<url>>,
                                         !.startDate = IF FalsyStr(dateFilter) THEN <<>>
                                                       ELSE <<startDate>>])
         /\ UNCHANGED <<error, messageBoxContent, isMessageBoxVisible, loadingConcerts>>

\* The continuation of `await fetch(opencageApiUrl)` (lines 140-165 and, on
\* success, lines 168-226).
OpenCageResponse(f) ==
    /\ flow[f].pc = "geoFetch"
    /\ \E r \in fetches :
        /\ r.flow = f
        /\ r.api = "opencage"
        /\ r.resp # Pending
        /\ IF GeoSucceeds(r.resp)
           THEN /\ AfterGeocoding(f,
                    [flow[f] EXCEPT
                        !.geoLog = Append(@, "ok"),
                        !.latitude = Num(FirstResult(r.resp.results).geometry.lat),
                        !.longitude = Num(FirstResult(r.resp.results).geometry.lng)],
                    fetches \ {r})
                /\ UNCHANGED timers
           ELSE IF IsLastAttempt(flow[f].i)
           THEN /\ error' = GeoExhaustedError(GeoThrown(r.resp, city))
                /\ ShowMessageBox(GeoExhaustedBox(GeoThrown(r.resp, city)))
                /\ loadingConcerts' = FALSE
                /\ fetches' = fetches \ {r}
                /\ SetFlow(f, [flow[f] EXCEPT !.pc = "done", !.geoLog = Append(@, "failed")])
                /\ UNCHANGED timers
           ELSE /\ timers' = timers \cup {[flow |-> f, ms |-> Backoff(flow[f].i)]}
                /\ fetches' = fetches \ {r}
                /\ SetFlow(f, [flow[f] EXCEPT !.pc = "geoBackoff",
                                              !.geoLog = Append(@, "failed")])
                /\ UNCHANGED <<error, messageBoxContent, isMessageBoxVisible, loadingConcerts>>
    /\ UNCHANGED <<concerts, selectedConcert, playlist, config, generation>>

\* The backoff timer of the geocoding loop fires: i++ and the next iteration.
OpenCageBackoffDone(f) ==
    /\ flow[f].pc = "geoBackoff"
    /\ \E t \in timers :
        /\ t.flow = f
        /\ timers' = timers \ {t}
        /\ IF LoopContinues(flow[f].i + 1)
           THEN /\ fetches' = IssueFetch(fetches, f, "opencage", flow[f].geoCount + 1,
                                         OpenCageUrl(city, OPENCAGE_API_KEY))
                /\ SetFlow(f, [flow[f] EXCEPT !.pc = "geoFetch", !.i = @ + 1,
                                              !.geoCount = @ + 1,
                                              !.geoWaits = Append(@, t.ms)])
                /\ UNCHANGED <<error, messageBoxContent, isMessageBoxVisible, loadingConcerts>>
           ELSE AfterGeocoding(f,
                    [flow[f] EXCEPT !.i = @ + 1, !.geoWaits = Append(@, t.ms)],
                    fetches)
    /\ UNCHANGED <<concerts, selectedConcert, playlist, config, generation>>

\* The event-search provider (or the network) settles an outstanding request.
TicketmasterAnswers(r, resp) ==
    /\ r \in fetches
    /\ r.api = "ticketmaster"
    /\ r.resp = Pending
    /\ fetches' = (fetches \ {r}) \cup {[r EXCEPT !.resp = resp]}
    /\ UNCHANGED <<concerts, selectedConcert, playlist, loadingConcerts, error,
                   messageBoxContent, isMessageBoxVisible, config, generation, flow, timers>>

\* The continuation of `await fetch(ticketmasterApiUrl)` (lines 226-272).
TicketmasterResponse(f) ==
    /\ flow[f].pc = "tmFetch"
    /\ \E r \in fetches :
        /\ r.flow = f
        /\ r.api = "ticketmaster"
        /\ r.resp # Pending
        /\ fetches' = fetches \ {r}
        /\ IF TmOk(r.resp) /\ TmHasEvents(r.resp)
           THEN /\ concerts' = setConcerts(f, concerts, NormalizeEvents(r.resp.events))
                /\ playlist' = <<>>
                /\ loadingConcerts' = FALSE
                /\ SetFlow(f, [flow[f] EXCEPT !.pc = "done", !.tmLog = Append(@, "ok"),
                        !.overwrote = IF NewerWrote(f) THEN <<concerts>> ELSE <<>>])
                /\ UNCHANGED <<error, messageBoxContent, isMessageBoxVisible, timers>>
           ELSE IF TmOk(r.resp)
           THEN /\ concerts' = setConcerts(f, concerts, <<>>)
                /\ error' = NoConcertsMsg
                /\ loadingConcerts' = FALSE
                /\ SetFlow(f, [flow[f] EXCEPT !.pc = "done", !.tmLog = Append(@, "ok"),
                        !.overwrote = IF NewerWrote(f) THEN <<concerts>> ELSE <<>>])
                /\ UNCHANGED <<playlist, messageBoxContent, isMessageBoxVisible, timers>>
           ELSE /\ IF IsLastAttempt(flow[f].i)
                   THEN /\ error' = TmExhaustedError(TmThrown(r.resp))
                        /\ ShowMessageBox(TmExhaustedBox(TmThrown(r.resp)))
                   ELSE UNCHANGED <<error, messageBoxContent, isMessageBoxVisible>>
                /\ timers' = timers \cup {[flow |-> f, ms |-> Backoff(flow[f].i)]}
                /\ SetFlow(f, [flow[f] EXCEPT !.pc = "tmBackoff", !.tmLog = Append(@, "failed")])
                /\ UNCHANGED <<concerts, playlist, loadingConcerts>>
    /\ UNCHANGED <<selectedConcert, config, generation>>

\* The backoff timer of the event-search loop fires: i++ and the next
\* iteration, or the end of the loop and line 272.
TicketmasterBackoffDone(f) ==
    /\ flow[f].pc = "tmBackoff"
    /\ \E t \in timers :
        /\ t.flow = f
        /\ timers' = timers \ {t}
        /\ IF LoopContinues(flow[f].i + 1)
           THEN /\ fetches' = IssueFetch(fetches, f, "ticketmaster", flow[f].tmCount + 1,
                                         flow[f].ticketmasterApiUrl[1])
                /\ SetFlow(f, [flow[f] EXCEPT !.pc = "tmFetch", !.i = @ + 1,
                                              !.tmCount = @ + 1,
                                              !.tmWaits = Append(@, t.ms)])
                /\ UNCHANGED loadingConcerts
           ELSE /\ loadingConcerts' = FALSE
                /\ SetFlow(f, [flow[f] EXCEPT !.pc = "done", !.i = @ + 1,
                                              !.tmWaits = Append(@, t.ms)])
                /\ UNCHANGED fetches
    /\ UNCHANGED <<concerts, selectedConcert, playlist, error, messageBoxContent,
                   isMessageBoxVisible, config, generation>>

\* handleSelectConcert(concert): a click on a concert of the rendered list.
handleSelectConcert(k) ==
    /\ ~loadingConcerts
    /\ k \in 1..Len(concerts)
    /\ selectedConcert' = <<concerts[k]>>
    /\ UNCHANGED <<concerts, playlist, loadingConcerts, error, messageBoxContent,
                   isMessageBoxVisible, config, generation, flow, fetches, timers>>

\* hideMessageBox(): the Close button of the visible message box.
hideMessageBox ==
    /\ isMessageBoxVisible
    /\ isMessageBoxVisible' = FALSE
    /\ messageBoxContent' = <<>>
    /\ UNCHANGED <<concerts, selectedConcert, playlist, loadingConcerts, error,
                   config, generation, flow, fetches, timers>>

\* ------------------------------------------------- playlist generation
IdleGen ==
    [pc |-> "idle", parsedSongs |-> <<>>,
     \* the link of each item, <<"pending">> while its lookup is outstanding
     youtubeLink |-> <<>>,
     \* history: the searches that had started when the generation was
     \* requested, how the provider's answer was taken, and the list given
     \* to setPlaylist at line 479 (<<>> before that)
     searches |-> {}, outcome |-> "", produced |-> <<>>,
     \* history: a lookup has completed while the lookup of an earlier item
     \* was outstanding
     outOfOrder |-> FALSE]

RECURSIVE Distinct(_)
\* [...new Set(list)]: the first occurrence of each value, in order
Distinct(list) ==
    IF list = <<>> THEN <<>>
    ELSE LET rest == Distinct(SubSeq(list, 1, Len(list) - 1))
         IN IF \E k \in 1..Len(rest) : rest[k] = list[Len(list)]
            THEN rest ELSE Append(rest, list[Len(list)])

\* concerts.map(c => c.artist), deduplicated
UniqueArtists(list) == Distinct([k \in 1..Len(list) |-> list[k].artist])

\* result.candidates && ... && result.candidates[0].content.parts.length > 0
LlmEnvelopeOk(resp) == resp.envelope = "full"

\* (mutation) any text of a JSON body is taken as an array
LlmParses_AnyText(resp) == resp.kind = "json"

\* JSON.parse(jsonString) returns and the value has a map method
LlmParses(resp) == resp.kind = "json" /\ resp.text = "array"

\* YOUTUBE_API_KEY && YOUTUBE_API_KEY !== 'YOUR_YOUTUBE_DATA_API_KEY_HERE'
YouTubeKeyUsable(key) == ~FalsyStr(key) /\ key # "YOUR_YOUTUBE_DATA_API_KEY_HERE"

\* the search URL of one item
YouTubeSearchUrl(item, key) ==
    [host |-> "www.googleapis.com",
     q |-> <<item.artistName, " - ", item.songTitle, " official audio">>, key |-> key]

\* The constant part of the link template, as characters where the URL parser
\* looks at them.
WatchUrl == <<"https://music.youtube.com/watch", "?", "v", "=">>

\* searchData.items?.[0]?.id?.videoId turned into the link, or null
LinkOf(resp) ==
    IF resp.kind = "json" /\ resp.videoId # <<>>
    THEN WatchUrl \o resp.videoId
    ELSE Null

\* (mutation) the link of a lookup goes to the first item still waiting
SettleLookup_FirstWaiting(links, item, link) ==
    LET k == CHOOSE j \in 1..Len(links) :
                /\ links[j] = <<"pending">>
                /\ \A i \in 1..(j - 1) : links[i] # <<"pending">>
    IN [links EXCEPT ![k] = link]

\* The async function of an item returns its own youtubeLink, and Promise.all
\* keeps each result at the index of its item.
SettleLookup(links, item, link) == [links EXCEPT ![item] = link]

\* (mutation) items without a link are left out
SongsWithLinks_OnlyLinked(items, links) ==
    LET all == [k \in 1..Len(items) |->
                    [artistName |-> items[k].artistName, songTitle |-> items[k].songTitle,
                     selected |-> TRUE, youtubeLink |-> links[k]]]
    IN SelectSeq(all, LAMBDA e : e.youtubeLink # Null)

\* (mutation) the new entries are added to the entries on screen
setPlaylist_Append(current, songsWithLinks) == current \o songsWithLinks

\* setPlaylist(songsWithLinks)
setPlaylist(current, songsWithLinks) == songsWithLinks

\* the array Promise.all resolves to
SongsWithLinks(items, links) ==
    [k \in 1..Len(items) |->
        [artistName |-> items[k].artistName, songTitle |-> items[k].songTitle,
         selected |-> TRUE, youtubeLink |-> links[k]]]

\* generatePlaylistFromConcerts(), from the call to its first await (lines
\* 395-441).  Invocations are numbered in call order.  The button that calls it
\* is rendered only for a non-empty concert list; the function itself checks.
generatePlaylistFromConcerts(g) ==
    /\ gen[g].pc = "idle"
    /\ \A h \in DOMAIN gen : h < g => gen[h].pc # "idle"
    /\ IF Len(concerts) = 0
       THEN /\ ShowMessageBox(NoConcertsToGenerateMsg)
            /\ gen' = [gen EXCEPT ![g].pc = "done"]
            /\ UNCHANGED <<playlist, loadingPlaylist, error, fetches>>
       ELSE IF Len(UniqueArtists(concerts)) = 0
       THEN /\ loadingPlaylist' = FALSE
            /\ playlist' = <<>>
            /\ error' = <<>>
            /\ ShowMessageBox(NoUniqueArtistsMsg)
            /\ gen' = [gen EXCEPT ![g].pc = "done"]
            /\ UNCHANGED fetches
       ELSE /\ loadingPlaylist' = TRUE
            /\ playlist' = <<>>
            /\ error' = <<>>
            /\ fetches' = fetches \cup
                    {[flow |-> 0, gen |-> g, pub |-> 0, sign |-> 0, item |-> 0, api |-> "gemini", attempt |-> 1,
                      url |-> [host |-> "generativelanguage.googleapis.com",
                               body |-> UniqueArtists(concerts)],
                      resp |-> Pending]}
            /\ gen' = [gen EXCEPT ![g].pc = "llmFetch",
                           ![g].searches = {f \in DOMAIN flow : flow[f].pc # "idle"}]
            /\ UNCHANGED <<messageBoxContent, isMessageBoxVisible>>
    /\ UNCHANGED <<concerts, selectedConcert, loadingConcerts, config, pub, flow, timers>>

\* The generative provider (or the network) settles the outstanding request.
GeminiAnswers(r, resp) ==
    /\ r \in fetches
    /\ r.api = "gemini"
    /\ r.resp = Pending
    /\ fetches' = (fetches \ {r}) \cup {[r EXCEPT !.resp = resp]}
    /\ UNCHANGED <<concerts, selectedConcert, playlist, loadingConcerts, error,
                   messageBoxContent, isMessageBoxVisible, config, generation, flow, timers>>

\* The continuation of `await fetch(geminiApiUrl)` and `await response.json()`
\* (lines 441-490): up to the video lookups, all issued by the map, or to the
\* end of the function.
GeminiResponse(g) ==
    /\ gen[g].pc = "llmFetch"
    /\ \E r \in fetches :
        /\ r.api = "gemini"
        /\ r.gen = g
        /\ r.resp # Pending
        /\ IF r.resp.kind = "json" /\ ~LlmEnvelopeOk(r.resp)
           THEN /\ error' = LlmUnexpectedMsg
                /\ loadingPlaylist' = FALSE
                /\ fetches' = fetches \ {r}
                /\ gen' = [gen EXCEPT ![g].pc = "done", ![g].outcome = "unexpected"]
                /\ UNCHANGED playlist
           ELSE IF ~LlmParses(r.resp)
           THEN /\ error' = GenerationFailedMsg
                /\ loadingPlaylist' = FALSE
                /\ fetches' = fetches \ {r}
                /\ gen' = [gen EXCEPT ![g].pc = "done", ![g].outcome = "thrown"]
                /\ UNCHANGED playlist
           ELSE IF YouTubeKeyUsable(YOUTUBE_API_KEY) /\ r.resp.songs # <<>>
           THEN /\ fetches' = (fetches \ {r}) \cup
                        {[flow |-> 0, gen |-> g, pub |-> 0, sign |-> 0, item |-> k, api |-> "youtube", attempt |-> 1,
                          url |-> YouTubeSearchUrl(r.resp.songs[k], YOUTUBE_API_KEY),
                          resp |-> Pending] : k \in 1..Len(r.resp.songs)}
                /\ gen' = [gen EXCEPT ![g].pc = "lookups", ![g].outcome = "parsed",
                               ![g].parsedSongs = r.resp.songs,
                               ![g].youtubeLink = [k \in 1..Len(r.resp.songs) |-> <<"pending">>]]
                /\ UNCHANGED <<playlist, loadingPlaylist, error>>
           ELSE /\ playlist' = setPlaylist(playlist,
                                SongsWithLinks(r.resp.songs,
                                    [k \in 1..Len(r.resp.songs) |-> Null]))
                /\ loadingPlaylist' = FALSE
                /\ fetches' = fetches \ {r}
                /\ gen' = [gen EXCEPT ![g].pc = "done", ![g].outcome = "parsed",
                               ![g].parsedSongs = r.resp.songs,
                               ![g].youtubeLink = [k \in 1..Len(r.resp.songs) |-> Null],
                               ![g].produced = <<playlist'>>]
                /\ UNCHANGED error
    /\ UNCHANGED <<concerts, selectedConcert, loadingConcerts, messageBoxContent,
                   isMessageBoxVisible, config, pub, flow, timers>>

\* The video search answers the lookup r with resp and the item's async
\* function runs to its end (lines 461-477); after the last one Promise.all
\* resolves and lines 478 and 489 run.
YouTubeResponse(r, resp) ==
    /\ r \in fetches
    /\ r.api = "youtube"
    /\ gen[r.gen].pc = "lookups"
    /\ fetches' = fetches \ {r}
    /\ LET links == SettleLookup(gen[r.gen].youtubeLink, r.item, LinkOf(resp))
           early == gen[r.gen].outOfOrder
                    \/ \E k \in 1..(r.item - 1) : gen[r.gen].youtubeLink[k] = <<"pending">>
       IN IF \E k \in 1..Len(links) : links[k] = <<"pending">>
          THEN /\ gen' = [gen EXCEPT ![r.gen].youtubeLink = links,
                              ![r.gen].outOfOrder = early]
               /\ UNCHANGED <<playlist, loadingPlaylist>>
          ELSE /\ playlist' = setPlaylist(playlist,
                                SongsWithLinks(gen[r.gen].parsedSongs, links))
               /\ gen' = [gen EXCEPT ![r.gen].youtubeLink = links, ![r.gen].pc = "done",
                              ![r.gen].outOfOrder = early,
                              ![r.gen].produced = <<playlist'>>]
               /\ loadingPlaylist' = FALSE
    /\ UNCHANGED <<concerts, selectedConcert, loadingConcerts, error, messageBoxContent,
                   isMessageBoxVisible, config, pub, flow, timers>>

\* ------------------------------------------------- publishing the playlist
IdlePub ==
    [pc |-> "idle",
     \* what the handler's closure holds
     selectedSongs |-> <<>>, youtubeAccessToken |-> Null,
     playlistId |-> Null,
     \* the position of the for loop in selectedSongs
     i |-> 0,
     \* history: every text passed to showMessageBox, and the positions for
     \* which an add-item request was issued
     notices |-> <<>>, added |-> <<>>]

\* (mutation) every entry counts as selected
SelectedSongs_All(list) == list

\* playlist.filter(song => song.selected)
SelectedSongs(list) == SelectSeq(list, LAMBDA song : song.selected)

\* YOUTUBE_API_KEY === 'YOUR_YOUTUBE_DATA_API_KEY_HERE'
KeyIsPlaceholder(key) == key = "YOUR_YOUTUBE_DATA_API_KEY_HERE"

\* (mutation) any response counts as the created resource
ResourceReturned_Always(resp) == TRUE

\* response.ok, and response.json() returns the resource
ResourceReturned(resp) == resp.kind = "ok" /\ resp.body = "json"

\* mainError.message for a response that is not taken as the resource
CauseOfPublishError(what, resp) ==
    IF resp.kind = "neterr" THEN "Failed to fetch"
    ELSE IF resp.body = "json" THEN what
    ELSE "Unexpected token"

CreatePlaylistRequest(p, key, token) ==
    [flow |-> 0, gen |-> 0, pub |-> p, sign |-> 0, item |-> 0, api |-> "playlists", attempt |-> 1,
     url |-> [host |-> "www.googleapis.com", path |-> "playlists", key |-> key,
              bearer |-> token, privacyStatus |-> "private"],
     resp |-> Pending]

VideoSearchRequest(p, k, song, key) ==
    [flow |-> 0, gen |-> 0, pub |-> p, sign |-> 0, item |-> k, api |-> "search", attempt |-> 1,
     url |-> YouTubeSearchUrl(song, key),
     resp |-> Pending]

AddItemRequest(p, k, key, token, playlistId, videoId) ==
    [flow |-> 0, gen |-> 0, pub |-> p, sign |-> 0, item |-> k, api |-> "playlistItems", attempt |-> 1,
     url |-> [host |-> "www.googleapis.com", path |-> "playlistItems", key |-> key,
              bearer |-> token, playlistId |-> playlistId, videoId |-> videoId],
     resp |-> Pending]

\* The position of the first occurrence of the character in the string, or
\* one past its end.
IndexOf(str, ch) ==
    IF \E k \in 1..Len(str) : str[k] = ch
    THEN CHOOSE k \in 1..Len(str) : str[k] = ch /\ \A j \in 1..(k - 1) : str[j] # ch
    ELSE Len(str) + 1

\* new URL(link).search without its '?': what stands between the first '?'
\* and the fragment.
SearchOf(link) ==
    LET url == SubSeq(link, 1, IndexOf(link, "#") - 1)
    IN SubSeq(url, IndexOf(url, "?") + 1, Len(url))

\* The decoding URLSearchParams applies to a name or a value: '+' is a space,
\* a percent escape is its character.
FormDecode(str) ==
    [k \in 1..Len(str) |->
        IF str[k] = "+" THEN " " ELSE IF str[k] = "%26" THEN "&" ELSE str[k]]

RECURSIVE GetParam(_, _)
\* new URLSearchParams(query).get(name): the value of the first pair of that
\* name, pairs being separated by '&' and split at their first '='; null (and
\* an empty value) is <<>>.
GetParam(query, name) ==
    IF query = <<>> THEN Null
    ELSE LET pair == SubSeq(query, 1, IndexOf(query, "&") - 1)
             rest == SubSeq(query, IndexOf(query, "&") + 1, Len(query))
         IN IF FormDecode(SubSeq(pair, 1, IndexOf(pair, "=") - 1)) = name
            THEN FormDecode(SubSeq(pair, IndexOf(pair, "=") + 1, Len(pair)))
            ELSE GetParam(rest, name)

\* (mutation) the whole query string is taken as the id
VideoIdOfLink_WholeSearch(link) == SearchOf(link)

\* new URLSearchParams(new URL(song.youtubeLink).search).get('v')
VideoIdOfLink(link) == GetParam(SearchOf(link), <<"v">>)

\* searchData.items?.[0]?.id?.videoId is truthy
VideoFound(resp) == resp.kind = "json" /\ resp.videoId # <<>>

\* The calls of showMessageBox made by one synchronous stretch of the
\* handler, in order: the last one is what is rendered.
Notify(messages) ==
    IF messages = <<>>
    THEN UNCHANGED <<messageBoxContent, isMessageBoxVisible>>
    ELSE ShowMessageBox(messages[Len(messages)])

\* The handler ends at a return of its precondition checks (lines 497-508).
PublishRefused(p, message) ==
    /\ ShowMessageBox(message)
    /\ pub' = [pub EXCEPT ![p].pc = "done", ![p].notices = Append(@, message)]
    /\ UNCHANGED <<loadingPlaylist, fetches>>

\* (the outer catch without the finally)
PublishAborts_NoFinally(p, r, message) ==
    /\ ShowMessageBox(PublishErrorMsg(message))
    /\ UNCHANGED loadingPlaylist
    /\ fetches' = fetches \ {r}
    /\ pub' = [pub EXCEPT ![p].pc = "done",
                   ![p].notices = Append(@, PublishErrorMsg(message))]

\* The outer catch and finally (lines 603-608), replacing the request r.
PublishAborts(p, r, message) ==
    /\ ShowMessageBox(PublishErrorMsg(message))
    /\ loadingPlaylist' = FALSE
    /\ fetches' = fetches \ {r}
    /\ pub' = [pub EXCEPT ![p].pc = "done",
                   ![p].notices = Append(@, PublishErrorMsg(message))]

\* The first request of the loop body for the entry at position k (lines
\* 547-572): the id is parsed from the entry's link when it has one; without
\* an id the video search is asked, with one the item is added.
EntryRequest(p, locals, k) ==
    LET song == locals.selectedSongs[k]
        videoId == IF song.youtubeLink # Null THEN VideoIdOfLink(song.youtubeLink) ELSE Null
    IN IF videoId = <<>>
       THEN VideoSearchRequest(p, k, song, YOUTUBE_API_KEY)
       ELSE AddItemRequest(p, k, YOUTUBE_API_KEY, locals.youtubeAccessToken,
                           locals.playlistId, videoId)

\* (mutation) the request of the next entry is sent together with this one's
IssueForEntry_WithNext(p, locals, k) ==
    {EntryRequest(p, locals, j) : j \in {k, k + 1} \cap 1..Len(locals.selectedSongs)}

\* What the loop has sent when it reaches its await for the entry at
\* position k: each fetch of the loop is awaited before the next statement.
IssueForEntry(p, locals, k) == {EntryRequest(p, locals, k)}

\* The for loop from the entry at position k up to its next await, or past
\* the last entry to the end of the handler (lines 546-608); r is the request
\* just consumed, locals the invocation's variables, messages the
\* showMessageBox calls made since the last await.
PublishLoop(p, r, locals, k, messages) ==
    IF k > Len(locals.selectedSongs)
    THEN LET all == IF locals.playlistId # Null
                    THEN Append(messages, PublishedMsg(locals.playlistId[1]))
                    ELSE messages
         IN /\ Notify(all)
            /\ loadingPlaylist' = FALSE
            /\ fetches' = fetches \ {r}
            /\ pub' = [pub EXCEPT ![p] = [locals EXCEPT !.pc = "done", !.i = k,
                                                       !.notices = @ \o all]]
    ELSE LET first == EntryRequest(p, locals, k)
         IN /\ Notify(messages)
            /\ UNCHANGED loadingPlaylist
            /\ fetches' = (fetches \ {r}) \cup IssueForEntry(p, locals, k)
            /\ IF first.api = "playlistItems"
               THEN pub' = [pub EXCEPT ![p] = [locals EXCEPT !.pc = "add", !.i = k,
                                                      !.notices = @ \o messages,
                                                      !.added = Append(@, k)]]
               ELSE pub' = [pub EXCEPT ![p] = [locals EXCEPT !.pc = "search", !.i = k,
                                                      !.notices = @ \o messages]]

\* createYouTubeMusicPlaylist(), from the call to its first await or return
\* (lines 494-517).  Invocations are numbered in call order.
createYouTubeMusicPlaylist(p) ==
    /\ pub[p].pc = "idle"
    /\ \A q \in DOMAIN pub : q < p => pub[q].pc # "idle"
    /\ LET selectedSongs == SelectedSongs(playlist)
       IN IF Len(selectedSongs) = 0
          THEN PublishRefused(p, NoSongSelectedMsg)
          ELSE IF googleUser = Null \/ youtubeAccessToken = Null
          THEN PublishRefused(p, SignInFirstMsg)
          ELSE IF KeyIsPlaceholder(YOUTUBE_API_KEY)
          THEN PublishRefused(p, YouTubeKeyMissingMsg)
          ELSE /\ loadingPlaylist' = TRUE
               /\ fetches' = fetches \cup
                        {CreatePlaylistRequest(p, YOUTUBE_API_KEY, youtubeAccessToken)}
               /\ pub' = [pub EXCEPT ![p].pc = "create",
                              ![p].selectedSongs = selectedSongs,
                              ![p].youtubeAccessToken = youtubeAccessToken]
               /\ UNCHANGED <<messageBoxContent, isMessageBoxVisible>>
    /\ UNCHANGED <<concerts, selectedConcert, playlist, loadingConcerts, error, config,
                   gen, flow, timers>>

\* A YouTube Data API endpoint (or the network) settles the outstanding
\* request r of a publish.
PublishAnswers(r, resp) ==
    /\ r \in fetches
    /\ r.api \in {"playlists", "search", "playlistItems"}
    /\ r.resp = Pending
    /\ fetches' = (fetches \ {r}) \cup {[r EXCEPT !.resp = resp]}
    /\ UNCHANGED <<concerts, selectedConcert, playlist, loadingConcerts, error,
                   messageBoxContent, isMessageBoxVisible, config, generation, flow, timers>>

\* The continuation of `await fetch(createPlaylistUrl)` (lines 517-546 and on
\* into the loop).
CreatePlaylistResponse(p) ==
    /\ pub[p].pc = "create"
    /\ \E r \in fetches :
        /\ r.api = "playlists"
        /\ r.pub = p
        /\ r.resp # Pending
        /\ IF ResourceReturned(r.resp)
           THEN PublishLoop(p, r, [pub[p] EXCEPT !.playlistId = <<r.resp.id>>], 1,
                            <<PlaylistCreatedMsg(r.resp.title)>>)
           ELSE PublishAborts(p, r, CauseOfPublishError("Failed to create playlist: Forbidden", r.resp))
    /\ UNCHANGED <<concerts, selectedConcert, playlist, loadingConcerts, error, config,
                   gen, flow, timers>>

\* The continuation of `await fetch(searchUrl)` in the loop (lines 557-572
\* and on).
VideoSearchResponse(p) ==
    /\ pub[p].pc = "search"
    /\ \E r \in fetches :
        /\ r.api = "search"
        /\ r.pub = p
        /\ r.resp # Pending
        /\ LET song == pub[p].selectedSongs[r.item]
           IN IF VideoFound(r.resp)
              THEN /\ fetches' = (fetches \ {r}) \cup
                            {AddItemRequest(p, r.item, YOUTUBE_API_KEY, pub[p].youtubeAccessToken,
                                            pub[p].playlistId, r.resp.videoId)}
                   /\ pub' = [pub EXCEPT ![p].pc = "add", ![p].added = Append(@, r.item)]
                   /\ UNCHANGED <<messageBoxContent, isMessageBoxVisible, loadingPlaylist>>
              ELSE PublishLoop(p, r, pub[p], r.item + 1,
                               <<IF r.resp.kind = "json" THEN NoVideoFoundMsg(song)
                                 ELSE SearchErrorMsg(song)>>)
    /\ UNCHANGED <<concerts, selectedConcert, playlist, loadingConcerts, error, config,
                   gen, flow, timers>>

\* The continuation of `await fetch(addPlaylistItemUrl)` in the loop (lines
\* 572-597 and on).
AddItemResponse(p) ==
    /\ pub[p].pc = "add"
    /\ \E r \in fetches :
        /\ r.api = "playlistItems"
        /\ r.pub = p
        /\ r.resp # Pending
        /\ LET song == pub[p].selectedSongs[r.item]
           IN IF r.resp.kind = "ok"
              THEN PublishLoop(p, r, pub[p], r.item + 1, <<>>)
              ELSE IF r.resp.kind = "http" /\ r.resp.body = "json"
              THEN PublishLoop(p, r, pub[p], r.item + 1, <<AddFailedMsg(song)>>)
              ELSE PublishAborts(p, r, CauseOfPublishError("", r.resp))
    /\ UNCHANGED <<concerts, selectedConcert, playlist, loadingConcerts, error, config,
                   gen, flow, timers>>

\* (mutation) the entry is ticked whatever it was
ToggleAt_Select(list, index) ==
    [k \in 1..Len(list) |->
        IF k - 1 = index THEN [list[k] EXCEPT !.selected = TRUE] ELSE list[k]]

\* currentPlaylist.map((song, i) => i === index ? {...song, selected:
\* !song.selected} : song), index counting from 0
ToggleAt(list, index) ==
    [k \in 1..Len(list) |->
        IF k - 1 = index THEN [list[k] EXCEPT !.selected = ~@] ELSE list[k]]

\* toggleSongSelection(index): the check box of an entry.
toggleSongSelection(index) ==
    /\ playlist' = ToggleAt(playlist, index)
    /\ UNCHANGED <<concerts, selectedConcert, loadingConcerts, error, messageBoxContent,
                   isMessageBoxVisible, config, generation, flow, fetches, timers>>

\* ---------------------------------------------------- the Google session
IdleSign == [pc |-> "idle"]

\* What signInWithPopup settles with: a rejection (the popup was closed, the
\* domain is not authorised), or a result with the user, for which
\* GoogleAuthProvider.credentialFromResult returns null, a credential without
\* an access token, or a credential with one.
PopupResults ==
    {[kind |-> "rejected", message |-> m, user |-> Null, credential |-> "", accessToken |-> Null] :
        m \in {"Firebase: Error (auth/popup-closed-by-user).",
                "Firebase: Error (auth/unauthorized-domain)."}}
    \cup {[kind |-> "ok", message |-> "", user |-> <<"user">>, credential |-> "null",
            accessToken |-> Null],
          [kind |-> "ok", message |-> "", user |-> <<"user">>, credential |-> "oauth",
            accessToken |-> Null],
          [kind |-> "ok", message |-> "", user |-> <<"user">>, credential |-> "oauth",
            accessToken |-> <<"token">>]}

\* What signOut and signInAnonymously settle with.
FirebaseResults ==
    {[kind |-> "ok", message |-> "", user |-> Null, credential |-> "", accessToken |-> Null],
     [kind |-> "rejected", message |-> "Firebase: Error (auth/network-request-failed).",
      user |-> Null, credential |-> "", accessToken |-> Null]}

\* A call of the Firebase Auth SDK made by the invocation k of a handler (0:
\* by the auth-state listener).
FirebaseCall(k, api) ==
    [flow |-> 0, gen |-> 0, pub |-> 0, sign |-> k, item |-> 0, api |-> api, attempt |-> 1,
     url |-> [host |-> "firebase"], resp |-> Pending]

\* errorMessage.includes("auth/unauthorized-domain")
IsUnauthorizedDomain(message) == message = "Firebase: Error (auth/unauthorized-domain)."

\* auth.currentUser after the SDK call r has settled with resp: a successful
\* popup makes the Google user current, a successful signOut nobody, a
\* successful signInAnonymously an anonymous user.
CurrentUserAfter(r, resp, currentUser) ==
    IF resp.kind # "ok" THEN currentUser
    ELSE IF r.api = "signInWithPopup" THEN "google"
    ELSE IF r.api = "signOut" THEN "none"
    ELSE "anonymous"

\* The auth-state listener called without a user runs to its await (lines
\* 304-311): it starts the anonymous sign-in.
ListenerWithoutUser(outstanding) == outstanding \cup {FirebaseCall(0, "signInAnonymously")}

\* handleGoogleSignIn(), from the call to its await (lines 337-349).
\* Invocations of the two session handlers are numbered in call order.
handleGoogleSignIn(k) ==
    /\ sign[k].pc = "idle"
    /\ \A j \in DOMAIN sign : j < k => sign[j].pc # "idle"
    /\ IF auth = Null
       THEN /\ error' = AuthNotInitializedMsg
            /\ sign' = [sign EXCEPT ![k].pc = "done"]
            /\ UNCHANGED <<loadingPlaylist, fetches>>
       ELSE /\ loadingPlaylist' = TRUE
            /\ fetches' = fetches \cup {FirebaseCall(k, "signInWithPopup")}
            /\ sign' = [sign EXCEPT ![k].pc = "popup"]
            /\ UNCHANGED error
    /\ UNCHANGED <<concerts, selectedConcert, playlist, loadingConcerts, messageBoxContent,
                   isMessageBoxVisible, settings, googleUser, youtubeAccessToken, auth,
                   gen, pub, flow, timers>>

\* handleGoogleSignOut(), from the call to its await (lines 379-382).
handleGoogleSignOut(k) ==
    /\ sign[k].pc = "idle"
    /\ \A j \in DOMAIN sign : j < k => sign[j].pc # "idle"
    /\ IF auth = Null
       THEN /\ sign' = [sign EXCEPT ![k].pc = "done"]
            /\ UNCHANGED fetches
       ELSE /\ fetches' = fetches \cup {FirebaseCall(k, "signOut")}
            /\ sign' = [sign EXCEPT ![k].pc = "signOut"]
    /\ UNCHANGED <<concerts, selectedConcert, playlist, loadingConcerts, error,
                   messageBoxContent, isMessageBoxVisible, settings, googleUser,
                   youtubeAccessToken, auth, loadingPlaylist, gen, pub, flow, timers>>

\* Firebase settles the outstanding SDK call r.  When that leaves nobody
\* signed in where somebody was, the auth-state listener is called without a
\* user.
FirebaseSettles(r, resp) ==
    /\ r \in fetches
    /\ r.api \in {"signInWithPopup", "signOut", "signInAnonymously"}
    /\ r.resp = Pending
    /\ auth # Null
    /\ LET before == auth[1].currentUser
           after == CurrentUserAfter(r, resp, before)
           settled == (fetches \ {r}) \cup {[r EXCEPT !.resp = resp]}
       IN /\ auth' = <<[currentUser |-> after]>>
          /\ fetches' = IF after = "none" /\ before # "none"
                        THEN ListenerWithoutUser(settled) ELSE settled
    /\ UNCHANGED <<concerts, selectedConcert, playlist, loadingConcerts, error,
                   messageBoxContent, isMessageBoxVisible, settings, googleUser,
                   youtubeAccessToken, sign, generation, flow, timers>>

\* The provider ends the session of the Google user (the account was
\* disabled, the user signed out in another tab): the auth-state listener is
\* called without a user.
SessionLost ==
    /\ auth # Null
    /\ auth[1].currentUser = "google"
    /\ auth' = <<[currentUser |-> "none"]>>
    /\ fetches' = ListenerWithoutUser(fetches)
    /\ UNCHANGED <<concerts, selectedConcert, playlist, loadingConcerts, error,
                   messageBoxContent, isMessageBoxVisible, settings, googleUser,
                   youtubeAccessToken, sign, generation, flow, timers>>

\* The continuation of `await signInWithPopup(auth, provider)` (lines
\* 349-375).
SignInResponse(k) ==
    /\ sign[k].pc = "popup"
    /\ \E r \in fetches :
        /\ r.api = "signInWithPopup"
        /\ r.sign = k
        /\ r.resp # Pending
        /\ fetches' = fetches \ {r}
        /\ IF r.resp.kind = "rejected"
           THEN /\ IF IsUnauthorizedDomain(r.resp.message)
                   THEN /\ error' = UnauthorizedDomainInstructions(r.resp.message)
                        /\ ShowMessageBox(UnauthorizedDomainInstructions(r.resp.message))
                   ELSE /\ error' = SignInFailedError(r.resp.message)
                        /\ ShowMessageBox(SignInFailedBox(r.resp.message))
                /\ UNCHANGED <<googleUser, youtubeAccessToken>>
           ELSE IF r.resp.credential = "null"
           THEN /\ googleUser' = r.resp.user
                /\ error' = SignInFailedError("Cannot read properties of null (reading 'accessToken')")
                /\ ShowMessageBox(SignInFailedBox("Cannot read properties of null (reading 'accessToken')"))
                /\ UNCHANGED youtubeAccessToken
           ELSE /\ googleUser' = r.resp.user
                /\ youtubeAccessToken' = r.resp.accessToken
                /\ ShowMessageBox(SignedInMsg)
                /\ UNCHANGED error
    /\ loadingPlaylist' = FALSE
    /\ sign' = [sign EXCEPT ![k].pc = "done"]
    /\ UNCHANGED <<concerts, selectedConcert, playlist, loadingConcerts, settings, auth,
                   gen, pub, flow, timers>>

\* The continuation of `await signOut(auth)` (lines 382-389).
SignOutResponse(k) ==
    /\ sign[k].pc = "signOut"
    /\ \E r \in fetches :
        /\ r.api = "signOut"
        /\ r.sign = k
        /\ r.resp # Pending
        /\ fetches' = fetches \ {r}
        /\ IF r.resp.kind = "ok"
           THEN /\ googleUser' = Null
                /\ youtubeAccessToken' = Null
                /\ ShowMessageBox(SignedOutMsg)
                /\ UNCHANGED error
           ELSE /\ error' = SignOutFailedError(r.resp.message)
                /\ UNCHANGED <<googleUser, youtubeAccessToken, messageBoxContent,
                               isMessageBoxVisible>>
    /\ sign' = [sign EXCEPT ![k].pc = "done"]
    /\ UNCHANGED <<concerts, selectedConcert, playlist, loadingConcerts, settings, auth,
                   generation, flow, timers>>

\* The continuation of the listener's `await signInAnonymously(firebaseAuth)`
\* (lines 311-321).
AnonymousSignInResponse ==
    \E r \in fetches :
        /\ r.api = "signInAnonymously"
        /\ r.resp # Pending
        /\ fetches' = fetches \ {r}
        /\ IF r.resp.kind = "ok" THEN UNCHANGED error ELSE error' = FirebaseAuthErrorMsg
        /\ googleUser' = Null
        /\ youtubeAccessToken' = Null
        /\ UNCHANGED <<concerts, selectedConcert, playlist, loadingConcerts,
                       messageBoxContent, isMessageBoxVisible, settings, auth, sign,
                       generation, flow, timers>>

\* ------------------------------------------------------------ the screen
NoConcertsPlaceholder == "No concerts found. Try a different city or widen the search radius!"

\* What the concert list area renders (lines 757-789).
ConcertsPanel(loading, list) ==
    IF loading THEN <<"Fetching concerts...">>
    ELSE IF Len(list) > 0 THEN [k \in 1..Len(list) |-> list[k].id]
    ELSE <<NoConcertsPlaceholder>>

Next ==
    \/ \E f \in DOMAIN flow : fetchConcerts(f)
    \/ \E r \in fetches, resp \in GeoResponses : OpenCageAnswers(r, resp)
    \/ \E f \in DOMAIN flow : OpenCageResponse(f)
    \/ \E f \in DOMAIN flow : OpenCageBackoffDone(f)
    \/ \E r \in fetches, resp \in TmResponses : TicketmasterAnswers(r, resp)
    \/ \E f \in DOMAIN flow : TicketmasterResponse(f)
    \/ \E f \in DOMAIN flow : TicketmasterBackoffDone(f)
    \/ \E k \in 1..MaxEvents : handleSelectConcert(k)
    \/ hideMessageBox

Spec == Init /\ [][Next]_vars

\* The React state after the first render, nothing in flight.
FirstRender ==
    /\ concerts = <<>>
    /\ selectedConcert = Null
    /\ playlist = <<>>
    /\ loadingConcerts = FALSE
    /\ loadingPlaylist = FALSE
    /\ error = <<>>
    /\ messageBoxContent = <<>>
    /\ isMessageBoxVisible = FALSE
    /\ fetches = {}
    /\ timers = {}

\* The build injected the three keys.
Configured ==
    /\ TICKETMASTER_API_KEY = "key"
    /\ OPENCAGE_API_KEY = "key"
    /\ YOUTUBE_API_KEY = "key"

\* The form as first rendered, in a browser in UTC.
DefaultForm ==
    /\ city = "Spartanburg"
    /\ searchRadius = "50"
    /\ genre = <<>>
    /\ dateFilter = ""
    /\ timezoneOffset = 0

\* One search with the form filled in: the keys are configured, the city is
\* the default one, and the genre, the date filter and the browser's time zone
\* are any of their options.
InitFilters ==
    /\ FirstRender
    /\ Configured
    /\ city = "Spartanburg"
    /\ searchRadius \in Radii
    /\ genre \in Genres
    /\ dateFilter \in DateFilters
    /\ timezoneOffset \in TimezoneOffsets
    /\ SignedOut
    /\ LiveProviders
    /\ gen = <<>>
    /\ pub = <<>>
    /\ Mounted
    /\ sign = <<>>
    /\ flow = [f \in {1} |-> IdleFlow]

SpecFilters == InitFilters /\ [][Next]_vars

\* One search with the form as first rendered and the keys configured.
InitDefaults ==
    /\ FirstRender
    /\ Configured
    /\ DefaultForm
    /\ SignedOut
    /\ LiveProviders
    /\ gen = <<>>
    /\ pub = <<>>
    /\ Mounted
    /\ sign = <<>>
    /\ flow = [f \in {1} |-> IdleFlow]

\* The steps of Next, the event-search provider answering with events of
\* every shape.
NextEvents ==
    \/ \E f \in DOMAIN flow : fetchConcerts(f)
    \/ \E r \in fetches, resp \in GeoResponses : OpenCageAnswers(r, resp)
    \/ \E f \in DOMAIN flow : OpenCageResponse(f)
    \/ \E f \in DOMAIN flow : OpenCageBackoffDone(f)
    \/ \E r \in fetches, resp \in AnyTmResponses : TicketmasterAnswers(r, resp)
    \/ \E f \in DOMAIN flow : TicketmasterResponse(f)
    \/ \E f \in DOMAIN flow : TicketmasterBackoffDone(f)
    \/ \E k \in 1..MaxEvents : handleSelectConcert(k)
    \/ hideMessageBox

SpecEvents == InitDefaults /\ [][NextEvents]_vars

\* A playlist as an earlier generation left it.
EarlierPlaylist ==
    <<[artistName |-> "Artist A", songTitle |-> "Hit", selected |-> TRUE,
       youtubeLink |-> Null]>>

\* The app after an earlier search (and possibly generation) has completed:
\* the concert list holds what that search found, the playlist what a
\* generation left (line 478 can run after a later search has replaced the
\* list), nothing is in flight, and one more search and one generation are to
\* come.
InitAfterSearch ==
    /\ concerts \in {NormalizeEvents(es) : es \in SeqsUpTo(ProviderEvents, MaxEvents)}
    /\ selectedConcert = Null
    /\ playlist \in {<<>>, EarlierPlaylist}
    /\ loadingConcerts = FALSE
    /\ loadingPlaylist = FALSE
    /\ error = <<>>
    /\ messageBoxContent = <<>>
    /\ isMessageBoxVisible = FALSE
    /\ fetches = {}
    /\ timers = {}
    /\ Configured
    /\ DefaultForm
    /\ SignedOut
    /\ LiveProviders
    /\ gen = [g \in {1} |-> IdleGen]
    /\ pub = <<>>
    /\ Mounted
    /\ sign = <<>>
    /\ flow = [f \in {1} |-> IdleFlow]

\* Two searches, one after the other or overlapping, with the form as first
\* rendered.
InitTwoSearches ==
    /\ FirstRender
    /\ Configured
    /\ DefaultForm
    /\ SignedOut
    /\ LiveProviders
    /\ gen = <<>>
    /\ pub = <<>>
    /\ Mounted
    /\ sign = <<>>
    /\ flow = [f \in {1, 2} |-> IdleFlow]

SpecTwoSearches == InitTwoSearches /\ [][Next]_vars

\* The search and the generation (selecting a concert, which writes
\* selectedConcert only, is left to the other specifications).
NextPlaylist ==
    \/ \E f \in DOMAIN flow : fetchConcerts(f)
    \/ \E r \in fetches, resp \in GeoResponses : OpenCageAnswers(r, resp)
    \/ \E f \in DOMAIN flow : OpenCageResponse(f)
    \/ \E f \in DOMAIN flow : OpenCageBackoffDone(f)
    \/ \E r \in fetches, resp \in TmResponses : TicketmasterAnswers(r, resp)
    \/ \E f \in DOMAIN flow : TicketmasterResponse(f)
    \/ \E f \in DOMAIN flow : TicketmasterBackoffDone(f)
    \/ hideMessageBox
    \/ \E g \in DOMAIN gen : generatePlaylistFromConcerts(g)
    \/ \E r \in fetches, resp \in GeminiResponses : GeminiAnswers(r, resp)
    \/ \E g \in DOMAIN gen : GeminiResponse(g)
    \/ \E r \in fetches, resp \in YouTubeResponses : YouTubeResponse(r, resp)

SpecPlaylist == InitAfterSearch /\ [][NextPlaylist]_vars

\* Concert lists as a search leaves them: one concert, two concerts of two
\* artists, two concerts of one artist.
SampleConcertLists ==
    {NormalizeEvents(es) :
        es \in {<<FullEvent>>, <<FullEvent, BareEvent>>, <<FullEvent, FullEvent>>}}

\* What a deterministic video search answers to a term: no response, no
\* match, or one of two videos.
VideoAnswers ==
    {[kind |-> "neterr", videoId |-> Null]}
    \cup {[kind |-> "json", videoId |-> v] : v \in {Null, V1, V2}}

\* The search terms of the items of an answer of the generative provider.
SearchTermsOf(resp) ==
    {YouTubeSearchUrl(resp.songs[k], "key").q : k \in 1..Len(resp.songs)}

\* Two generation requests on the same concert list, against providers that
\* answer deterministically: the generative provider has one answer to the
\* prompt, the video search one answer to each term.
InitGeneration ==
    /\ concerts \in SampleConcertLists
    /\ selectedConcert = Null
    /\ playlist = <<>>
    /\ loadingConcerts = FALSE
    /\ loadingPlaylist = FALSE
    /\ error = <<>>
    /\ messageBoxContent = <<>>
    /\ isMessageBoxVisible = FALSE
    /\ fetches = {}
    /\ timers = {}
    /\ Configured
    /\ DefaultForm
    /\ SignedOut
    /\ generativeProvider \in [{UniqueArtists(concerts)} -> GeminiResponses]
    /\ videoProvider \in
            [SearchTermsOf(generativeProvider[UniqueArtists(concerts)]) -> VideoAnswers]
    /\ gen = [g \in {1, 2} |-> IdleGen]
    /\ pub = <<>>
    /\ Mounted
    /\ sign = <<>>
    /\ flow = <<>>

NextGeneration ==
    \/ \E g \in DOMAIN gen : generatePlaylistFromConcerts(g)
    \/ \E r \in fetches :
            r.api = "gemini" /\ GeminiAnswers(r, generativeProvider[r.url.body])
    \/ \E g \in DOMAIN gen : GeminiResponse(g)
    \/ \E r \in fetches :
            r.api = "youtube" /\ YouTubeResponse(r, videoProvider[r.url.q])

SpecGeneration == InitGeneration /\ [][NextGeneration]_vars

\* Entries as a generation and the check boxes leave them: a song whose
\* lookup found a video, and songs whose lookup found none, each selected or
\* not.
PlaylistEntries ==
    {[artistName |-> "Artist A", songTitle |-> "Hit", selected |-> sel,
      youtubeLink |-> LinkOf([kind |-> "json", videoId |-> V1])] : sel \in BOOLEAN}
    \cup {[artistName |-> a, songTitle |-> "Hit", selected |-> sel, youtubeLink |-> Null] :
            a \in {"Artist A", "Artist B"}, sel \in BOOLEAN}

\* Nobody signed in, a sign-in whose credential carried no access token, and
\* a sign-in with a token.
Sessions ==
    {[googleUser |-> Null, youtubeAccessToken |-> Null],
     [googleUser |-> <<"user">>, youtubeAccessToken |-> Null],
     [googleUser |-> <<"user">>, youtubeAccessToken |-> <<"token">>]}

\* The search terms of the entries that have no link.
FallbackTermsOf(list) ==
    {YouTubeSearchUrl(list[k], "key").q :
        k \in {j \in 1..Len(list) : list[j].youtubeLink = Null}}

\* One publish of a playlist on screen, with the session and the video key in
\* any of their states, against a video search that answers
\* deterministically.
InitPublish ==
    /\ concerts = <<NormalizeEvent(FullEvent)>>
    /\ selectedConcert = Null
    /\ playlist \in SeqsUpTo(PlaylistEntries, MaxSongs)
    /\ loadingConcerts = FALSE
    /\ loadingPlaylist = FALSE
    /\ error = <<>>
    /\ messageBoxContent = <<>>
    /\ isMessageBoxVisible = FALSE
    /\ fetches = {}
    /\ timers = {}
    /\ TICKETMASTER_API_KEY = "key"
    /\ OPENCAGE_API_KEY = "key"
    /\ YOUTUBE_API_KEY \in ApiKeys \cup {"YOUR_YOUTUBE_DATA_API_KEY_HERE"}
    /\ DefaultForm
    /\ \E session \in Sessions :
        /\ googleUser = session.googleUser
        /\ youtubeAccessToken = session.youtubeAccessToken
    /\ generativeProvider = <<>>
    /\ videoProvider \in [FallbackTermsOf(playlist) -> VideoAnswers]
    /\ gen = <<>>
    /\ pub = [p \in {1} |-> IdlePub]
    /\ Mounted
    /\ sign = <<>>
    /\ flow = <<>>

NextPublish ==
    \/ \E p \in DOMAIN pub : createYouTubeMusicPlaylist(p)
    \/ \E r \in fetches, resp \in PlaylistApiResponses :
            r.api \in {"playlists", "playlistItems"} /\ PublishAnswers(r, resp)
    \/ \E r \in fetches :
            r.api = "search" /\ PublishAnswers(r, videoProvider[r.url.q])
    \/ \E p \in DOMAIN pub : CreatePlaylistResponse(p)
    \/ \E p \in DOMAIN pub : VideoSearchResponse(p)
    \/ \E p \in DOMAIN pub : AddItemResponse(p)
    \/ hideMessageBox

SpecPublish == InitPublish /\ [][NextPublish]_vars

\* The publish with the check boxes of the entries in use before, during and
\* after it (the list is not rendered while loadingPlaylist is true, line
\* 819; the handler is callable whenever the list exists).
NextSelection ==
    \/ \E p \in DOMAIN pub : createYouTubeMusicPlaylist(p)
    \/ \E r \in fetches, resp \in PlaylistApiResponses :
            r.api \in {"playlists", "playlistItems"} /\ PublishAnswers(r, resp)
    \/ \E r \in fetches :
            r.api = "search" /\ PublishAnswers(r, videoProvider[r.url.q])
    \/ \E p \in DOMAIN pub : CreatePlaylistResponse(p)
    \/ \E p \in DOMAIN pub : VideoSearchResponse(p)
    \/ \E p \in DOMAIN pub : AddItemResponse(p)
    \/ \E index \in 0..(MaxSongs - 1) : toggleSongSelection(index)

SpecSelection == InitPublish /\ [][NextSelection]_vars

\* The Sign In button: rendered with the playlist when nobody is signed in,
\* disabled while loadingPlaylist is true (lines 819-824, 864, 875-878).
SignInButton(k) ==
    /\ Len(playlist) > 0
    /\ ~loadingPlaylist
    /\ googleUser = Null
    /\ handleGoogleSignIn(k)

\* The Sign Out button: rendered with the playlist when a Google user is
\* signed in (lines 819-824, 864-868).
SignOutButton(k) ==
    /\ Len(playlist) > 0
    /\ ~loadingPlaylist
    /\ googleUser # Null
    /\ handleGoogleSignOut(k)

\* The Create Playlist button: rendered with the playlist when the user and
\* the token are present, disabled while loadingPlaylist is true (lines
\* 819-824, 896-900).
CreatePlaylistButton(p) ==
    /\ Len(playlist) > 0
    /\ ~loadingPlaylist
    /\ googleUser # Null
    /\ youtubeAccessToken # Null
    /\ createYouTubeMusicPlaylist(p)

\* The entries of the playlist on screen in a session: a song with a link
\* and a song without, both selected.
SessionEntries ==
    {[artistName |-> "Artist A", songTitle |-> "Hit", selected |-> TRUE,
      youtubeLink |-> LinkOf([kind |-> "json", videoId |-> V1])],
     [artistName |-> "Artist B", songTitle |-> "Hit", selected |-> TRUE,
      youtubeLink |-> Null]}

\* The app with a generated playlist on screen and nobody signed in with
\* Google: two uses of the session buttons and one publish are to come.  The
\* video search finds a video for every term.
InitSession ==
    /\ concerts = <<NormalizeEvent(FullEvent)>>
    /\ selectedConcert = Null
    /\ playlist \in SeqsUpTo(SessionEntries, MaxSongs) \ {<<>>}
    /\ loadingConcerts = FALSE
    /\ loadingPlaylist = FALSE
    /\ error = <<>>
    /\ messageBoxContent = <<>>
    /\ isMessageBoxVisible = FALSE
    /\ fetches = {}
    /\ timers = {}
    /\ Configured
    /\ DefaultForm
    /\ SignedOut
    /\ generativeProvider = <<>>
    /\ videoProvider = [term \in FallbackTermsOf(playlist) |-> [kind |-> "json", videoId |-> V2]]
    /\ gen = <<>>
    /\ pub = [p \in {1} |-> IdlePub]
    /\ Mounted
    /\ sign = [k \in {1, 2} |-> IdleSign]
    /\ flow = <<>>

NextSession ==
    \/ \E k \in DOMAIN sign : SignInButton(k)
    \/ \E k \in DOMAIN sign : SignOutButton(k)
    \/ \E r \in fetches, resp \in PopupResults :
            r.api = "signInWithPopup" /\ FirebaseSettles(r, resp)
    \/ \E r \in fetches, resp \in FirebaseResults :
            r.api \in {"signOut", "signInAnonymously"} /\ FirebaseSettles(r, resp)
    \/ SessionLost
    \/ \E k \in DOMAIN sign : SignInResponse(k)
    \/ \E k \in DOMAIN sign : SignOutResponse(k)
    \/ AnonymousSignInResponse
    \/ \E p \in DOMAIN pub : CreatePlaylistButton(p)
    \/ \E r \in fetches, resp \in PlaylistApiResponses :
            r.api \in {"playlists", "playlistItems"} /\ PublishAnswers(r, resp)
    \/ \E r \in fetches :
            r.api = "search" /\ PublishAnswers(r, videoProvider[r.url.q])
    \/ \E p \in DOMAIN pub : CreatePlaylistResponse(p)
    \/ \E p \in DOMAIN pub : VideoSearchResponse(p)
    \/ \E p \in DOMAIN pub : AddItemResponse(p)
    \/ hideMessageBox

SpecSession == InitSession /\ [][NextSession]_vars

\* --------------------------------------------------------------------------
\* The first render and what follows it.  The effect of lines 277-334 depends
\* on firebaseConfig, which lines 67-74 build anew at every render, so React
\* runs the effect again after every render.  A render follows every change
\* of state; a search that got past its checks changes the state (line 125
\* sets a new empty list), so the effect is due again once the latest
\* invocation of fetchConcerts has got that far.

\* the invocation before f has rendered: it got past its checks
Rendered(f) == f > 1 /\ flow[f - 1].geoCount > 0

\* The effect (lines 277-334), from its start to its return.  With an
\* incomplete configuration it throws at line 281 and its catch reports the
\* error; running it again changes nothing.  Otherwise it initialises
\* Firebase at its first run, registers the listener and calls
\* fetchConcerts() as invocation f (line 325).  The listener's own calls
\* belong to the session (FirebaseSettles, AnonymousSignInResponse); they
\* leave the search alone and are not followed from here.
FirebaseEffect(f) ==
    IF firebaseConfig # "complete"
    THEN /\ f = 1
         /\ error' = FirebaseConfigErrorMsg
         /\ ShowMessageBox(FirebaseConfigErrorMsg)
         /\ UNCHANGED <<concerts, selectedConcert, playlist, loadingConcerts,
                        config, generation, flow, fetches, timers>>
    ELSE /\ IF f = 1 THEN auth = Null ELSE Rendered(f)
         /\ auth' = IF auth = Null THEN <<[currentUser |-> "none"]>> ELSE auth
         /\ CallFetchConcerts(f)
         /\ UNCHANGED <<settings, googleUser, youtubeAccessToken, sign, generation,
                        timers>>

\* The effect of the first render has run.
EffectHasRun ==
    IF firebaseConfig = "complete" THEN auth # Null
    ELSE error # Null \/ \E f \in DOMAIN flow : flow[f].pc # "idle"

\* The Search button (lines 742-746), disabled while loadingConcerts is true.
SearchButton(f) ==
    /\ EffectHasRun
    /\ ~loadingConcerts
    /\ fetchConcerts(f)

\* The page before its first effect: the keys are configured, the Firebase
\* configuration is complete or not, the City field is as first rendered or
\* was emptied, and fetchConcerts can be called twice.
InitMount ==
    /\ FirstRender
    /\ Configured
    /\ city \in Cities
    /\ searchRadius = "50"
    /\ genre = <<>>
    /\ dateFilter = ""
    /\ timezoneOffset = 0
    /\ SignedOut
    /\ LiveProviders
    /\ firebaseConfig \in {"complete", "incomplete"}
    /\ auth = Null
    /\ gen = <<>>
    /\ pub = <<>>
    /\ sign = <<>>
    /\ flow = [f \in {1, 2} |-> IdleFlow]

NextMount ==
    \/ \E f \in DOMAIN flow : FirebaseEffect(f)
    \/ \E f \in DOMAIN flow : SearchButton(f)
    \/ \E r \in fetches, resp \in GeoResponses : OpenCageAnswers(r, resp)
    \/ \E f \in DOMAIN flow : OpenCageResponse(f)
    \/ \E f \in DOMAIN flow : OpenCageBackoffDone(f)
    \/ \E r \in fetches, resp \in TmResponses : TicketmasterAnswers(r, resp)
    \/ \E f \in DOMAIN flow : TicketmasterResponse(f)
    \/ \E f \in DOMAIN flow : TicketmasterBackoffDone(f)

SpecMount == InitMount /\ [][NextMount]_vars

\* --------------------------------------------------------------------------
\* The five operations side by side: one search from the search form, one
\* generation over a concert list, and the session of InitSession with its
\* sign-in, sign-out and publish.  Each behaviour starts in one of the three.

\* one search, every city, radius and key of Init
InitOneSearch ==
    /\ FirstRender
    /\ city \in Cities
    /\ searchRadius \in Radii
    /\ genre = <<>>
    /\ dateFilter = ""
    /\ timezoneOffset = 0
    /\ TICKETMASTER_API_KEY \in ApiKeys
    /\ OPENCAGE_API_KEY \in ApiKeys
    /\ YOUTUBE_API_KEY = "key"
    /\ SignedOut
    /\ LiveProviders
    /\ gen = <<>>
    /\ pub = <<>>
    /\ Mounted
    /\ sign = <<>>
    /\ flow = [f \in {1} |-> IdleFlow]

\* one generation over a concert list, the providers' answers fixed
InitOneGeneration ==
    /\ concerts \in SampleConcertLists
    /\ selectedConcert = Null
    /\ playlist = <<>>
    /\ loadingConcerts = FALSE
    /\ loadingPlaylist = FALSE
    /\ error = <<>>
    /\ messageBoxContent = <<>>
    /\ isMessageBoxVisible = FALSE
    /\ fetches = {}
    /\ timers = {}
    /\ Configured
    /\ DefaultForm
    /\ SignedOut
    /\ generativeProvider \in [{UniqueArtists(concerts)} -> GeminiResponses]
    /\ videoProvider \in
            [SearchTermsOf(generativeProvider[UniqueArtists(concerts)]) -> VideoAnswers]
    /\ gen = [g \in {1} |-> IdleGen]
    /\ pub = <<>>
    /\ Mounted
    /\ sign = <<>>
    /\ flow = <<>>

InitApp == InitOneSearch \/ InitOneGeneration \/ InitSession

\* the user starts an operation
UserStarts ==
    \/ \E f \in DOMAIN flow : fetchConcerts(f)
    \/ \E g \in DOMAIN gen : generatePlaylistFromConcerts(g)
    \/ \E k \in DOMAIN sign : SignInButton(k)
    \/ \E k \in DOMAIN sign : SignOutButton(k)
    \/ \E p \in DOMAIN pub : CreatePlaylistButton(p)

\* what the user does
UserActs == UserStarts \/ hideMessageBox

\* a request in flight is answered
RequestCompletes ==
    \/ \E r \in fetches, resp \in GeoResponses : OpenCageAnswers(r, resp)
    \/ \E r \in fetches, resp \in TmResponses : TicketmasterAnswers(r, resp)
    \/ \E r \in fetches :
            r.api = "gemini" /\ GeminiAnswers(r, generativeProvider[r.url.body])
    \/ \E r \in fetches, resp \in PopupResults :
            r.api = "signInWithPopup" /\ FirebaseSettles(r, resp)
    \/ \E r \in fetches, resp \in FirebaseResults :
            r.api \in {"signOut", "signInAnonymously"} /\ FirebaseSettles(r, resp)
    \/ \E r \in fetches, resp \in PlaylistApiResponses :
            r.api \in {"playlists", "playlistItems"} /\ PublishAnswers(r, resp)
    \/ \E r \in fetches :
            r.api = "search" /\ PublishAnswers(r, videoProvider[r.url.q])

\* a handler whose await has settled goes on
HandlerResumes ==
    \/ \E f \in DOMAIN flow : OpenCageResponse(f)
    \/ \E f \in DOMAIN flow : TicketmasterResponse(f)
    \/ \E g \in DOMAIN gen : GeminiResponse(g)
    \/ \E r \in fetches :
            r.api = "youtube" /\ YouTubeResponse(r, videoProvider[r.url.q])
    \/ \E k \in DOMAIN sign : SignInResponse(k)
    \/ \E k \in DOMAIN sign : SignOutResponse(k)
    \/ AnonymousSignInResponse
    \/ \E p \in DOMAIN pub : CreatePlaylistResponse(p)
    \/ \E p \in DOMAIN pub : VideoSearchResponse(p)
    \/ \E p \in DOMAIN pub : AddItemResponse(p)

\* a retry timer fires
TimerFires ==
    \/ \E f \in DOMAIN flow : OpenCageBackoffDone(f)
    \/ \E f \in DOMAIN flow : TicketmasterBackoffDone(f)

NextApp == UserActs \/ RequestCompletes \/ HandlerResumes \/ TimerFires \/ SessionLost

SpecApp == InitApp /\ [][NextApp]_vars

\* --------------------------------------------------------------------------
\* The operations under the scheduling of the browser, each started at most
\* once: a search with the default form, a generation over two concerts, and
\* a session, signed out or signed in with Google, with a playlist of one
\* entry on screen.

InitOneSession ==
    /\ concerts = <<NormalizeEvent(FullEvent)>>
    /\ selectedConcert = Null
    /\ playlist \in {<<entry>> : entry \in SessionEntries}
    /\ loadingConcerts = FALSE
    /\ loadingPlaylist = FALSE
    /\ error = <<>>
    /\ messageBoxContent = <<>>
    /\ isMessageBoxVisible = FALSE
    /\ fetches = {}
    /\ timers = {}
    /\ Configured
    /\ DefaultForm
    /\ firebaseConfig = "complete"
    /\ \/ SignedOut /\ auth = <<[currentUser |-> "anonymous"]>>
       \/ /\ googleUser = <<"user">>
          /\ youtubeAccessToken = <<"token">>
          /\ auth = <<[currentUser |-> "google"]>>
    /\ generativeProvider = <<>>
    /\ videoProvider = [term \in FallbackTermsOf(playlist) |-> [kind |-> "json", videoId |-> V2]]
    /\ gen = <<>>
    /\ pub = [p \in {1} |-> IdlePub]
    /\ sign = [k \in {1} |-> IdleSign]
    /\ flow = <<>>

InitLive ==
    \/ InitDefaults
    \/ InitOneGeneration /\ concerts = NormalizeEvents(<<FullEvent, BareEvent>>)
    \/ InitOneSession

NextLive == UserStarts \/ RequestCompletes \/ HandlerResumes \/ TimerFires \/ SessionLost

\* A request in flight is answered at some time (the proviso of the
\* termination property), the event loop runs a continuation whose await has
\* settled, and a timer that was set fires.  Nothing obliges the user to
\* click.
Fairness ==
    /\ WF_vars(RequestCompletes)
    /\ WF_vars(HandlerResumes)
    /\ WF_vars(TimerFires)

SpecLive == InitLive /\ [][NextLive]_vars /\ Fairness

\* =================================================================
\* Properties
\* =================================================================
RECURSIVE SumSeq(_)
SumSeq(q) == IF q = <<>> THEN 0 ELSE q[1] + SumSeq(Tail(q))

RequestsOf(f) == {r \in fetches : r.flow = f}

\* flow f consumes, in this step, the answer to its geocoding request r
ConsumesGeo(f, r) ==
    /\ r \in fetches
    /\ r.flow = f
    /\ r.api = "opencage"
    /\ r.resp # Pending
    /\ flow[f].pc = "geoFetch"
    /\ flow'[f].pc # "geoFetch"

\* the answer is a successful HTTP response without any result
ZeroResults(resp) == resp.kind = "ok" /\ (~resp.hasResults \/ resp.results = <<>>)

\* C1: a flow issues at most MAX_RETRIES + 1 = 3 geocoding requests and at most
\* 3 event-search requests, and every attempt before the latest request of a
\* call has been answered and failed.
C1_BoundedRetries ==
    \A f \in Flows :
        /\ flow[f].geoCount <= 3
        /\ flow[f].tmCount <= 3
        /\ \A k \in 1..(flow[f].geoCount - 1) :
              k <= Len(flow[f].geoLog) /\ flow[f].geoLog[k] = "failed"
        /\ \A k \in 1..(flow[f].tmCount - 1) :
              k <= Len(flow[f].tmLog) /\ flow[f].tmLog[k] = "failed"

\* C1 witness: a third event-search request is outstanding after two failures.
C1_Witness ==
    \E f \in Flows :
        /\ flow[f].tmCount = 3
        /\ flow[f].tmLog = <<"failed", "failed">>
        /\ \E r \in fetches : r.flow = f /\ r.api = "ticketmaster" /\ r.attempt = 3

\* C2: when the third geocoding attempt is the first to succeed, the locals
\* latitude/longitude become the coordinates of that response's first result,
\* the waits completed are exactly 1000 ms then 2000 ms, and (the coordinates
\* being non-zero) the event search is issued with these coordinates.
C2_ThirdAttemptSucceeds ==
    [][\A f \in Flows : \A r \in fetches :
        (ConsumesGeo(f, r) /\ r.attempt = 3 /\ r.resp.kind = "ok"
            /\ r.resp.hasResults /\ Len(r.resp.results) > 0)
        => /\ flow'[f].geoLog = <<"failed", "failed", "ok">>
           /\ flow'[f].latitude = <<r.resp.results[1].geometry.lat>>
           /\ flow'[f].longitude = <<r.resp.results[1].geometry.lng>>
           /\ flow'[f].geoWaits = <<1000, 2000>>
           /\ SumSeq(flow'[f].geoWaits) = 1000 + 2000
           /\ \A t \in timers' : t.flow # f
           /\ (r.resp.results[1].geometry.lat # 0 /\ r.resp.results[1].geometry.lng # 0)
                => \E q \in fetches' :
                     /\ q.flow = f /\ q.api = "ticketmaster"
                     /\ q.url.latlong = <<r.resp.results[1].geometry.lat,
                                          r.resp.results[1].geometry.lng>>
      ]_vars

\* C2 witness: the event search runs after two geocoding failures and two waits.
C2_Witness ==
    \E f \in Flows :
        /\ flow[f].geoLog = <<"failed", "failed", "ok">>
        /\ flow[f].geoWaits = <<1000, 2000>>
        /\ flow[f].latitude = <<34>>
        /\ flow[f].pc = "tmFetch"

\* C3 (as claimed): waits occur only between attempts; a call whose three
\* attempts all failed has waited 1000 + 2000 ms in total when the flow ends,
\* and no backoff timer is started after the final (third) failed attempt.
C3_WaitsOnlyBetweenAttempts ==
    \A f \in Flows :
        /\ \A t \in timers : t.flow = f => flow[f].i < MAX_RETRIES
        /\ (flow[f].pc = "done" /\ flow[f].geoLog = <<"failed", "failed", "failed">>)
              => SumSeq(flow[f].geoWaits) = 1000 + 2000
        /\ (flow[f].pc = "done" /\ flow[f].tmLog = <<"failed", "failed", "failed">>)
              => (SumSeq(flow[f].tmWaits) = 1000 + 2000 /\ ~loadingConcerts)

\* C5 (as claimed): a successful geocoding answer without results on the first
\* attempt is not retried: the flow ends there, having issued exactly one
\* geocoding request and started no backoff timer.
C5_ZeroResultsNotRetried ==
    [][\A f \in Flows : \A r \in fetches :
        (ConsumesGeo(f, r) /\ r.attempt = 1 /\ ZeroResults(r.resp))
        => /\ flow'[f].pc = "done"
           /\ flow'[f].geoCount = 1
           /\ \A t \in timers' : t.flow # f
           /\ \A q \in fetches' : q.flow # f
      ]_vars

\* C6 (as claimed): a geocoding answer without results ends the search with the
\* not-found message for the city (not the retry-exhaustion message), without
\* any event-search request and with an empty concert list.
C6_ZeroResultsNotFound ==
    [][\A f \in Flows : \A r \in fetches :
        (ConsumesGeo(f, r) /\ ZeroResults(r.resp))
        => /\ flow'[f].pc = "done"
           /\ error' = <<"Failed to get location coordinates for ", city,
                         ". Please try a more specific city name.">>
           /\ messageBoxContent' = error'
           /\ isMessageBoxVisible'
           /\ flow'[f].tmCount = 0
           /\ \A q \in fetches' : q.flow # f
           /\ concerts' = <<>>
      ]_vars

\* C4: when the first geocoding attempt is answered with at least one result,
\* one geocoding request has been issued, no backoff wait happened or is
\* pending, the coordinates are those of the first result, and no geocoding
\* request or wait is ever added once an attempt has succeeded.
C4_FirstAttemptSucceeds ==
    [][\A f \in Flows :
        /\ \A r \in fetches :
            (ConsumesGeo(f, r) /\ r.attempt = 1 /\ r.resp.kind = "ok"
                /\ r.resp.hasResults /\ Len(r.resp.results) > 0)
            => /\ flow'[f].geoCount = 1
               /\ flow'[f].geoWaits = <<>>
               /\ \A t \in timers' : t.flow # f
               /\ \A q \in fetches' : q.flow = f => q.api # "opencage"
               /\ flow'[f].latitude = <<r.resp.results[1].geometry.lat>>
               /\ flow'[f].longitude = <<r.resp.results[1].geometry.lng>>
        /\ (flow[f].geoLog # <<>> /\ flow[f].geoLog[Len(flow[f].geoLog)] = "ok")
            => /\ flow'[f].geoCount = flow[f].geoCount
               /\ flow'[f].geoWaits = flow[f].geoWaits
               /\ flow'[f].latitude = flow[f].latitude
               /\ flow'[f].longitude = flow[f].longitude
      ]_vars

\* C4 witness: a search that ended after one geocoding request and no wait.
C4_Witness ==
    \E f \in Flows :
        /\ flow[f].pc = "done"
        /\ flow[f].geoLog = <<"ok">>
        /\ flow[f].geoCount = 1
        /\ flow[f].geoWaits = <<>>
        /\ flow[f].latitude = <<34>>
        /\ flow[f].longitude = <<82>>
        /\ flow[f].tmLog = <<"ok">>

Mentions(text, piece) == \E k \in 1..Len(text) : text[k] = piece

\* what the message of a failed geocoding attempt must name
CauseOf(resp) ==
    IF resp.kind = "neterr" THEN "Failed to fetch"
    ELSE IF resp.kind = "http" THEN resp.status
    ELSE "Could not find coordinates for "

\* C7: when the third geocoding attempt fails, the flow ends in that step: the
\* error text and the notification are the retry-exhaustion texts and name the
\* cause of this third failure, the notification is visible, loadingConcerts
\* is false, and no event-search request and no timer exists for the flow.
C7_GeocodingExhausted ==
    [][\A f \in Flows : \A r \in fetches :
        (ConsumesGeo(f, r) /\ r.attempt = 3
            /\ ~(r.resp.kind = "ok" /\ r.resp.hasResults /\ Len(r.resp.results) > 0))
        => /\ flow'[f].pc = "done"
           /\ flow'[f].geoLog = <<"failed", "failed", "failed">>
           /\ error'[1] = "Failed to get location coordinates after 3 attempts: "
           /\ Mentions(error', CauseOf(r.resp))
           /\ messageBoxContent'[1] = "Failed to get location coordinates. Please check your OpenCage API key and network connection. Error: "
           /\ Mentions(messageBoxContent', CauseOf(r.resp))
           /\ isMessageBoxVisible'
           /\ ~loadingConcerts'
           /\ flow'[f].tmCount = 0
           /\ \A q \in fetches' : q.flow # f
           /\ \A t \in timers' : t.flow # f
      ]_vars

\* C7 witness: a search ended by three failed geocoding attempts, the last one
\* an HTTP 500, which the visible notification names.
C7_Witness ==
    \E f \in Flows :
        /\ flow[f].pc = "done"
        /\ flow[f].geoLog = <<"failed", "failed", "failed">>
        /\ flow[f].tmCount = 0
        /\ isMessageBoxVisible
        /\ Mentions(messageBoxContent, "500")
        /\ ~loadingConcerts

TimersOf(f) == {t \in timers : t.flow = f}

\* geocoding of flow f has completed with coordinates
GeocodingCompleted(f) ==
    /\ flow[f].geoLog # <<>>
    /\ Len(flow[f].geoLog) = flow[f].geoCount
    /\ flow[f].geoLog[Len(flow[f].geoLog)] = "ok"
    /\ flow[f].latitude # <<>>
    /\ flow[f].longitude # <<>>

\* C8: a flow has at most one request outstanding, never a request while one of
\* its backoff timers is pending, and an event-search request exists (or has
\* been issued) only after every geocoding request of the flow was answered,
\* the last one successfully.
C8_Sequential ==
    \A f \in Flows :
        /\ Cardinality(RequestsOf(f)) + Cardinality(TimersOf(f)) <= 1
        /\ \A r \in RequestsOf(f) : r.api = "ticketmaster" => GeocodingCompleted(f)
        /\ flow[f].tmCount > 0 => GeocodingCompleted(f)
        /\ \A r \in RequestsOf(f) :
              r.api = "opencage" => (flow[f].tmCount = 0 /\ r.attempt = flow[f].geoCount)

\* C8 witness: the second event-search attempt is outstanding, after a
\* geocoding that needed two attempts.
C8_Witness ==
    \E f \in Flows : \E r \in RequestsOf(f) :
        /\ r.api = "ticketmaster"
        /\ r.attempt = 2
        /\ flow[f].geoCount = 2
        /\ flow[f].geoLog = <<"failed", "ok">>

\* C9 (as claimed): once geocoding has succeeded with the coordinates of a
\* first result, whatever their values (0 included), an event-search request
\* has been issued, and every event-search request carries latlong = lat,lng
\* of these coordinates and the radius.
C9_SearchFollowsGeocoding ==
    \A f \in Flows :
        (flow[f].geoLog # <<>> /\ flow[f].geoLog[Len(flow[f].geoLog)] = "ok")
        => /\ flow[f].tmCount >= 1
           /\ \A r \in RequestsOf(f) :
                /\ r.api = "ticketmaster"
                /\ r.url.latlong = <<flow[f].latitude[1], flow[f].longitude[1]>>
                /\ r.url.radius = searchRadius

NotConfigured(key) == key \in {"", "undefined"}

\* C10: if the events-provider key or the geocoding-provider key is not
\* configured, no request and no timer ever exists, and an invocation of
\* fetchConcerts leaves the configuration error in the error text and, until
\* it is closed, in the visible notification.
C10_ConfigError ==
    (NotConfigured(TICKETMASTER_API_KEY) \/ NotConfigured(OPENCAGE_API_KEY))
    => /\ fetches = {}
       /\ timers = {}
       /\ \A f \in Flows :
            /\ flow[f].pc \in {"idle", "done"}
            /\ flow[f].geoCount = 0
            /\ flow[f].tmCount = 0
            /\ flow[f].pc = "done"
                => /\ error = IF NotConfigured(TICKETMASTER_API_KEY)
                              THEN MissingTicketmasterKeyMsg
                              ELSE MissingOpenCageKeyMsg
                   /\ isMessageBoxVisible => messageBoxContent = error
                   /\ ~loadingConcerts

\* C10 witness: fetchConcerts has returned on the missing geocoding key and
\* its notification is on screen.
C10_Witness ==
    \E f \in Flows :
        /\ flow[f].pc = "done"
        /\ ~NotConfigured(TICKETMASTER_API_KEY)
        /\ NotConfigured(OPENCAGE_API_KEY)
        /\ isMessageBoxVisible
        /\ messageBoxContent = MissingOpenCageKeyMsg
        /\ error = MissingOpenCageKeyMsg
        /\ fetches = {}

\* flow f consumes, in this step, the answer to its event-search request r
ConsumesTm(f, r) ==
    /\ r \in fetches
    /\ r.flow = f
    /\ r.api = "ticketmaster"
    /\ r.resp # Pending
    /\ flow[f].pc = "tmFetch"
    /\ flow'[f].pc # "tmFetch"

\* what a user reads as a failure: the texts that start with "Failed to"
FailureTexts ==
    {"Failed to fetch concerts after 3 attempts: ",
     "Failed to fetch concerts. Please check your Ticketmaster API key and network connection. Error: ",
     "Failed to get location coordinates after 3 attempts: ",
     "Failed to get location coordinates. Please check your OpenCage API key and network connection. Error: ",
     "Failed to get location coordinates for "}

\* C11: when an event-search answer has a successful status and no events
\* (no events field, or an empty events list), the search ends in that step
\* without a further request or wait (a first attempt stays the only request),
\* the concert list is empty, the screen reads "No concerts found" (in the list
\* area, and for a missing events field in the error text as well), and no
\* notification is opened nor any failure text set; unless another search
\* overlapped this one, no failure text is on screen.
C11_NoConcertsFound ==
    [][\A f \in Flows : \A r \in fetches :
        (ConsumesTm(f, r) /\ r.resp.kind = "ok"
            /\ (~r.resp.embedded \/ r.resp.events = <<>>))
        => /\ flow'[f].pc = "done"
           /\ flow'[f].tmCount = flow[f].tmCount
           /\ r.attempt = 1 => flow'[f].tmCount = 1
           /\ \A q \in fetches' : q.flow # f
           /\ \A t \in timers' : t.flow # f
           /\ concerts' = <<>>
           /\ ~loadingConcerts'
           /\ ConcertsPanel(loadingConcerts', concerts')
                = <<"No concerts found. Try a different city or widen the search radius!">>
           /\ ~r.resp.embedded =>
                error' = <<"No concerts found for your search criteria. Try a different city, widen the radius, or adjust the date range!">>
           /\ r.resp.embedded => error' = error
           /\ ~flow'[f].overlapped => (error' = <<>> \/ error'[1] \notin FailureTexts)
           /\ isMessageBoxVisible' = isMessageBoxVisible
           /\ messageBoxContent' = messageBoxContent
      ]_vars

\* C11 witness: a search ended by the first event-search answer, which had no
\* events field; the list is empty and the error text is the no-concerts text.
C11_Witness ==
    \E f \in Flows :
        /\ flow[f].pc = "done"
        /\ flow[f].tmCount = 1
        /\ flow[f].tmLog = <<"ok">>
        /\ concerts = <<>>
        /\ error = NoConcertsMsg
        /\ ~isMessageBoxVisible
        /\ ConcertsPanel(loadingConcerts, concerts) = <<NoConcertsPlaceholder>>

\* the event-search requests outstanding
TmRequests == {r \in fetches : r.api = "ticketmaster"}

\* what the provider reads from an encoded parameter value
DecodeURIComponent(str) == [k \in 1..Len(str) |-> IF str[k] = "%26" THEN "&" ELSE str[k]]

\* C12: every event-search request carries a keyword parameter exactly when
\* the genre is not '', and its value then decodes to the genre; it carries
\* startDateTime and endDateTime exactly when the date filter is 30, 60 or 90;
\* with genre '' and date filter '' it carries none of them.
C12_OptionalParameters ==
    \A r \in TmRequests :
        /\ (r.url.keyword # <<>>) <=> (genre # <<>>)
        /\ r.url.keyword # <<>> => DecodeURIComponent(r.url.keyword[1]) = genre
        /\ (r.url.startDateTime # <<>>) <=> (dateFilter \in {"30", "60", "90"})
        /\ (r.url.endDateTime # <<>>) <=> (dateFilter \in {"30", "60", "90"})
        /\ (genre = <<>> /\ dateFilter = "")
              => (r.url.keyword = <<>> /\ r.url.startDateTime = <<>> /\ r.url.endDateTime = <<>>)

\* C12 witness: a request for genre R&B and a 60 day window is outstanding,
\* with the keyword R%26B and both dates.
C12_Witness ==
    \E r \in TmRequests :
        /\ genre = <<"R", "&", "B">>
        /\ dateFilter = "60"
        /\ r.url.keyword = << <<"R", "%26", "B">> >>
        /\ r.url.startDateTime # <<>>
        /\ r.url.endDateTime # <<>>

DigitValue(c) == CHOOSE d \in 0..9 : Digit(d) = c

IsDigit(c) == \E d \in 0..9 : Digit(d) = c

\* the number written in positions from..to of str
RECURSIVE NumberAt(_, _, _)
NumberAt(str, from, to) ==
    IF to < from THEN 0 ELSE 10 * NumberAt(str, from, to - 1) + DigitValue(str[to])

\* str has the form YYYY-MM-DDTHH:MM:SSZ
IsoForm(str) ==
    /\ Len(str) = 20
    /\ \A k \in {1, 2, 3, 4, 6, 7, 9, 10, 12, 13, 15, 16, 18, 19} : IsDigit(str[k])
    /\ str[5] = "-" /\ str[8] = "-" /\ str[11] = "T"
    /\ str[14] = ":" /\ str[17] = ":" /\ str[20] = "Z"

\* the instant a timestamp of that form names, in whole seconds since
\* 2026-01-01T00:00:00Z
IsoUtcSeconds(str) ==
    (((NumberAt(str, 1, 4) - 2026) * 365 + DaysBeforeMonth(NumberAt(str, 6, 7))
        + NumberAt(str, 9, 10) - 1) * 24 + NumberAt(str, 12, 13)) * 3600
      + NumberAt(str, 15, 16) * 60 + NumberAt(str, 18, 19)

\* C13 (as claimed): for a date window of d = 30, 60 or 90 days, the
\* endDateTime of every event-search request names the instant exactly
\* d * 86400 seconds after the one its startDateTime names.
C13_WindowIsWholeDays ==
    \A r \in TmRequests :
        dateFilter \in {"30", "60", "90"}
        => /\ IsoForm(r.url.startDateTime)
           /\ IsoForm(r.url.endDateTime)
           /\ IsoUtcSeconds(r.url.endDateTime) - IsoUtcSeconds(r.url.startDateTime)
                = (IF dateFilter = "30" THEN 30 ELSE IF dateFilter = "60" THEN 60 ELSE 90)
                    * 86400

\* C14 (as claimed): in every time zone, the startDateTime a search sends has
\* the form YYYY-MM-DDTHH:MM:SSZ and names, as the UTC time it says it is, the
\* instant the search read from the clock, cut to the whole second.
C14_StartIsUtcNow ==
    \A f \in DOMAIN flow :
        flow[f].startDate # <<>>
        => /\ IsoForm(flow[f].ticketmasterApiUrl[1].startDateTime)
           /\ IsoUtcSeconds(flow[f].ticketmasterApiUrl[1].startDateTime)
                = flow[f].startDate[1].s

Missing(x) == x = "undefined"

\* x, or the placeholder when x is missing
Filled(x, placeholder) == IF Missing(x) THEN placeholder ELSE x

\* the venue, date, genre and description of the record made from event e
PlainFieldsFilled(e, c) ==
    /\ c.venue = Filled(e.venueName, "Unknown Venue")
    /\ c.date = Filled(e.localDate, "Date TBD")
    /\ c.genre = Filled(e.genre, "Various")
    /\ c.description = Filled(e.info, "No additional info available.")
    /\ ~Missing(c.venue) /\ ~Missing(c.date) /\ ~Missing(c.genre)
    /\ ~Missing(c.description)
    /\ c.location # <<>>
    /\ \A k \in 1..Len(c.location) : ~Missing(c.location[k])

\* C15 (as claimed): the record made from any provider event has venue,
\* location, date, genre and description present, and each is exactly its
\* placeholder when the event lacks the field: the location of an event without
\* a city is 'Unknown City'.
C15_PlaceholdersAsClaimed ==
    [][\A f \in DOMAIN flow : \A r \in fetches :
        (ConsumesTm(f, r) /\ r.resp.kind = "ok" /\ r.resp.embedded)
        => /\ Len(concerts') = Len(r.resp.events)
           /\ \A k \in 1..Len(r.resp.events) :
                /\ PlainFieldsFilled(r.resp.events[k], concerts'[k])
                /\ Missing(r.resp.events[k].venueCity)
                     => concerts'[k].location = <<"Unknown City">>
      ]_vars

\* C15 (amended): as claimed for venue, date, genre and description; the
\* location is the city, or 'Unknown City' when the event lacks it, followed by
\* ', ' and the state code when the event has one.
C15_Placeholders ==
    [][\A f \in DOMAIN flow : \A r \in fetches :
        (ConsumesTm(f, r) /\ r.resp.kind = "ok" /\ r.resp.embedded)
        => /\ Len(concerts') = Len(r.resp.events)
           /\ \A k \in 1..Len(r.resp.events) :
                /\ PlainFieldsFilled(r.resp.events[k], concerts'[k])
                /\ concerts'[k].location =
                      <<Filled(r.resp.events[k].venueCity, "Unknown City")>>
                        \o (IF Missing(r.resp.events[k].stateCode) THEN <<>>
                            ELSE <<", ", r.resp.events[k].stateCode>>)
      ]_vars

\* C15 witness: the list holds the record of an event that had a state code
\* and a date but no venue name, city, genre or description.
C15_Witness ==
    /\ concerts # <<>>
    /\ concerts[1].venue = "Unknown Venue"
    /\ concerts[1].location = <<"Unknown City", ", ", "NC">>
    /\ concerts[1].date = "2026-01-01"
    /\ concerts[1].genre = "Various"
    /\ concerts[1].description = "No additional info available."

\* invocation f, which got past its validation, ends in this step
SearchEnds(f) == flow[f].pc \notin {"idle", "done"} /\ flow'[f].pc = "done"

\* the events of the answer that invocation f consumes in this step, if it
\* consumes a successful one
EventsTaken(f) ==
    {r.resp.events : r \in {q \in fetches : ConsumesTm(f, q) /\ q.resp.kind = "ok"
                                               /\ q.resp.embedded}}

C17_StaleNotSuppressed ==
    [][\A f \in DOMAIN flow : \A r \in fetches :
        (ConsumesTm(f, r) /\ r.resp.kind = "ok")
        => concerts' = IF r.resp.embedded
                       THEN [k \in 1..Len(r.resp.events) |-> NormalizeEvent(r.resp.events[k])]
                       ELSE <<>>
      ]_vars

\* C17 witness: both searches have ended; the later one had written a
\* non-empty list, which the earlier one then replaced by its own, different
\* results.
C17_Witness ==
    /\ DOMAIN flow = {1, 2}
    /\ flow[1].pc = "done" /\ flow[2].pc = "done"
    /\ flow[1].overlapped /\ flow[2].overlapped
    /\ flow[1].overwrote # <<>>
    /\ flow[1].overwrote[1] # <<>>
    /\ concerts # <<>>
    /\ concerts # flow[1].overwrote[1]

\* The invocation f has got past the validation and has reset the working
\* sets (lines 123-127).
SearchStarted(f) == flow[f].pc # "idle"

\* The generation g was requested after the search f had started, and has
\* completed.
CompletedAfter(g, f) == gen[g].pc = "done" /\ f \in gen[g].searches

\* C18: once a search has started, the playlist is empty unless a generation
\* requested after that search started has completed; a generation already in
\* flight when the search started does not repopulate it.
C18_PlaylistStaysDiscarded ==
    \A f \in DOMAIN flow :
        (SearchStarted(f) /\ playlist # <<>>)
        => \E g \in DOMAIN gen : CompletedAfter(g, f)

\* The step in which the invocation g of generatePlaylistFromConcerts runs
\* from its call to its first await or return.
GenerationCalled(g) == gen[g].pc = "idle" /\ gen'[g].pc # "idle"

\* C19: generatePlaylistFromConcerts called with an empty concert list shows
\* the notice in the message box, issues no network request, and leaves the
\* playlist and loadingPlaylist as they were.
C19_EmptyListNotice ==
    [][\A g \in DOMAIN gen :
        (GenerationCalled(g) /\ Len(concerts) = 0)
        => /\ isMessageBoxVisible'
           /\ messageBoxContent' = NoConcertsToGenerateMsg
           /\ fetches' = fetches
           /\ playlist' = playlist
           /\ loadingPlaylist' = loadingPlaylist
      ]_vars

\* C19 witness: the generation was called with an empty list while an earlier
\* playlist was on screen; the notice is shown and the playlist is still there.
C19_Witness ==
    /\ gen[1].pc = "done"
    /\ gen[1].outcome = ""
    /\ concerts = <<>>
    /\ isMessageBoxVisible
    /\ messageBoxContent = NoConcertsToGenerateMsg
    /\ playlist = EarlierPlaylist
    /\ fetches = {}

\* The step in which the generation g takes the provider's answer r.
GeminiTaken(g, r) ==
    /\ gen[g].pc = "llmFetch"
    /\ gen'[g].pc # "llmFetch"
    /\ r \in fetches
    /\ r.api = "gemini"
    /\ r.gen = g
    /\ r.resp # Pending

\* The answer is a body without the expected envelope, or its text is not the
\* JSON of an array.
NotAsExpected(resp) ==
    /\ resp.kind \in {"json", "notjson"}
    /\ ~(resp.kind = "json" /\ resp.envelope = "full" /\ resp.text = "array")

\* C20: when the provider's response has an unexpected shape or its text
\* cannot be parsed, the generation fails: an error text is set, no video
\* search is requested, the playlist is empty and loadingPlaylist is false.
C20_GenerationFails ==
    [][\A g \in DOMAIN gen : \A r \in fetches :
        (GeminiTaken(g, r) /\ NotAsExpected(r.resp))
        => /\ error' \in {LlmUnexpectedMsg, GenerationFailedMsg}
           /\ ~\E q \in fetches' : q.api = "youtube"
           /\ playlist' = <<>>
           /\ ~loadingPlaylist'
      ]_vars

\* C20 witness: the provider's text did not parse; the generation has ended
\* with the failure text, an empty playlist and no lookup outstanding.
C20_Witness ==
    /\ gen[1].pc = "done"
    /\ gen[1].outcome = "thrown"
    /\ error = GenerationFailedMsg
    /\ playlist = <<>>
    /\ ~loadingPlaylist
    /\ ~\E q \in fetches : q.api = "youtube"

\* The step in which the generation g reaches setPlaylist(songsWithLinks)
\* (line 479) and ends.
GenerationSucceeds(g) == gen[g].produced = <<>> /\ gen'[g].produced # <<>>

\* The distinct artist names of a concert list.
ArtistNames(list) == {list[k].artist : k \in 1..Len(list)}

\* C21: when a generation succeeds, the playlist has as many entries as the
\* concert list (unchanged since the request) has distinct artist names.
C21_OneEntryPerArtist ==
    [][\A g \in DOMAIN gen :
        GenerationSucceeds(g) => Len(playlist') = Cardinality(ArtistNames(concerts))
      ]_vars

\* The pairs the deterministic generative provider returns to the prompt.
ReturnedPairs == generativeProvider[CHOOSE p \in DOMAIN generativeProvider : TRUE].songs

\* The provider's answer is an array of pairs (the generation is to succeed).
ReturnsPairs ==
    LET a == generativeProvider[CHOOSE p \in DOMAIN generativeProvider : TRUE]
    IN a.kind = "json" /\ a.envelope = "full" /\ a.text = "array"

\* What the deterministic video search answers to the lookup of a pair.
LookupAnswer(pair) ==
    videoProvider[<<pair.artistName, " - ", pair.songTitle, " official audio">>]

\* The lookup failed, or its answer names no video.
LookupFails(pair) ==
    LookupAnswer(pair).kind # "json" \/ LookupAnswer(pair).videoId = Null

\* The step in which the generation g ends.
GenerationEnds(g) == gen[g].pc # "done" /\ gen'[g].pc = "done"

\* C22: whichever lookups fail or find no match, a generation whose provider
\* returned pairs ends by setting a playlist of one entry per pair and no
\* error; the entries of the failing lookups have no link, and every other
\* entry has the link of the video its own lookup found.
C22_LookupsIsolated ==
    [][\A g \in DOMAIN gen :
        (GenerationEnds(g) /\ ReturnsPairs)
        => /\ GenerationSucceeds(g)
           /\ error' = <<>>
           /\ Len(playlist') = Len(ReturnedPairs)
           /\ \A k \in 1..Len(ReturnedPairs) :
                playlist'[k].youtubeLink =
                    IF LookupFails(ReturnedPairs[k]) THEN Null
                    ELSE WatchUrl \o LookupAnswer(ReturnedPairs[k]).videoId
      ]_vars

\* C22 witness: of two pairs the lookup of the first got no response and the
\* lookup of the second found a video; the playlist has both entries, the
\* first without a link.
C22_Witness ==
    /\ gen[1].pc = "done"
    /\ Len(ReturnedPairs) = 2
    /\ LookupAnswer(ReturnedPairs[1]).kind = "neterr"
    /\ ~LookupFails(ReturnedPairs[2])
    /\ Len(playlist) = 2
    /\ playlist[1].youtubeLink = Null
    /\ playlist[2].youtubeLink # Null
    /\ error = <<>>

\* C23: in whatever order the lookups complete, the playlist a generation
\* sets lists the pairs in the order the generative provider returned them,
\* each with the link of the lookup made for that pair.
C23_OrderPreserved ==
    [][\A g \in DOMAIN gen :
        GenerationSucceeds(g)
        => /\ [k \in 1..Len(playlist') |->
                    [artistName |-> playlist'[k].artistName,
                     songTitle |-> playlist'[k].songTitle]] = ReturnedPairs
           /\ \A k \in 1..Len(ReturnedPairs) :
                \/ playlist'[k].youtubeLink = Null /\ LookupFails(ReturnedPairs[k])
                \/ /\ ~LookupFails(ReturnedPairs[k])
                   /\ playlist'[k].youtubeLink
                        = WatchUrl \o LookupAnswer(ReturnedPairs[k]).videoId
      ]_vars

\* C23 witness: the lookup of the second pair completed before that of the
\* first, the two lookups found different videos, and the playlist has the
\* pairs and their videos in the provider's order.
C23_Witness ==
    /\ gen[1].pc = "done"
    /\ gen[1].outOfOrder
    /\ Len(playlist) = 2
    /\ playlist[1].artistName # playlist[2].artistName
    /\ playlist[1].youtubeLink # Null
    /\ playlist[2].youtubeLink # Null
    /\ playlist[1].youtubeLink # playlist[2].youtubeLink
    /\ playlist[1].artistName = ReturnedPairs[1].artistName

\* C24: two generations on the same distinct-artist input against
\* deterministic providers end the same way, and when they succeed they set
\* the same playlist (entries, order, links, selected flags), whatever the
\* order in which their lookups completed.
C24_Deterministic ==
    \A g, h \in DOMAIN gen :
        (gen[g].pc = "done" /\ gen[h].pc = "done")
        => /\ gen[g].outcome = gen[h].outcome
           /\ gen[g].produced = gen[h].produced

\* C24 witness: both generations have succeeded, the lookups of one completed
\* in order and those of the other out of order, and the playlist on screen
\* is what each of them set.
C24_Witness ==
    /\ gen[1].pc = "done" /\ gen[2].pc = "done"
    /\ ~gen[1].outOfOrder /\ gen[2].outOfOrder
    /\ gen[1].produced = <<playlist>>
    /\ gen[2].produced = <<playlist>>
    /\ Len(playlist) = 2
    /\ playlist[1].youtubeLink # playlist[2].youtubeLink
    /\ \A k \in 1..Len(playlist) : playlist[k].selected

\* The step in which the invocation p of createYouTubeMusicPlaylist runs from
\* its call to its first await or return.
PublishCalled(p) == pub[p].pc = "idle" /\ pub'[p].pc # "idle"

SomeSelected == \E k \in 1..Len(playlist) : playlist[k].selected

\* A request that creates a playlist or adds an item to one.
WritesPlaylist(r) == r.api \in {"playlists", "playlistItems"}

\* C25: createYouTubeMusicPlaylist called with no selected entry shows its
\* notice and issues no request; called with a selected entry but without the
\* signed-in user or without the access token it shows the sign-in notice and
\* issues no request; and no request that creates a playlist or adds an item
\* exists without a bearer token.
C25_PublishPreconditions ==
    [][/\ \A p \in DOMAIN pub :
            PublishCalled(p)
            => /\ ~SomeSelected
                    => /\ isMessageBoxVisible'
                       /\ messageBoxContent' = NoSongSelectedMsg
                       /\ fetches' = fetches
               /\ (SomeSelected /\ (googleUser = Null \/ youtubeAccessToken = Null))
                    => /\ isMessageBoxVisible'
                       /\ messageBoxContent' = SignInFirstMsg
                       /\ messageBoxContent' # NoSongSelectedMsg
                       /\ fetches' = fetches
       /\ \A r \in fetches' : WritesPlaylist(r) => r.url.bearer = <<"token">>
      ]_vars

\* C25 witness: a publish of a selected entry by a user whose sign-in gave no
\* access token has ended with the sign-in notice and without a request.
C25_Witness ==
    /\ pub[1].pc = "done"
    /\ SomeSelected
    /\ googleUser # Null
    /\ youtubeAccessToken = Null
    /\ isMessageBoxVisible
    /\ messageBoxContent = SignInFirstMsg
    /\ fetches = {}
    /\ ~loadingPlaylist

\* C26: createYouTubeMusicPlaylist called by a signed-in user with a selected
\* entry and an absent or empty video key shows the key notice and issues no
\* request.
C26_KeyRequired ==
    [][\A p \in DOMAIN pub :
        (PublishCalled(p) /\ SomeSelected /\ googleUser # Null /\ youtubeAccessToken # Null
            /\ NotConfigured(YOUTUBE_API_KEY))
        => /\ isMessageBoxVisible'
           /\ messageBoxContent' = YouTubeKeyMissingMsg
           /\ fetches' = fetches
      ]_vars

\* The step in which the publish p takes the answer r to its playlist-creation
\* request.
ConsumesCreate(p, r) ==
    /\ pub[p].pc = "create"
    /\ pub'[p].pc # "create"
    /\ r \in fetches
    /\ r.api = "playlists"
    /\ r.pub = p
    /\ r.resp # Pending

ErrorShown(content) == content # <<>> /\ content[1] = "Error creating YouTube Music playlist: "

SuccessShown(content) ==
    /\ content # <<>>
    /\ content[1] = "YouTube Music playlist created successfully! You can view it here: https://music.youtube.com/playlist?list="

\* C27: when the playlist-creation request gets no response or a non-success
\* status, the publish ends in that step: the error notification is shown, no
\* video-search or add-item request exists, no success text was shown, and
\* loadingPlaylist is false.
C27_CreateFailureTerminal ==
    [][\A p \in DOMAIN pub : \A r \in fetches :
        (ConsumesCreate(p, r) /\ r.resp.kind \in {"neterr", "http"})
        => /\ pub'[p].pc = "done"
           /\ isMessageBoxVisible'
           /\ ErrorShown(messageBoxContent')
           /\ \A q \in fetches' : q.api \notin {"search", "playlistItems"}
           /\ \A k \in 1..Len(pub'[p].notices) : ~SuccessShown(pub'[p].notices[k])
           /\ ~loadingPlaylist'
      ]_vars

\* C27 witness: the creation was refused with an error status; the publish
\* has ended with the error notification, without a playlist id.
C27_Witness ==
    /\ pub[1].pc = "done"
    /\ pub[1].selectedSongs # <<>>
    /\ pub[1].playlistId = Null
    /\ isMessageBoxVisible
    /\ messageBoxContent = PublishErrorMsg("Failed to create playlist: Forbidden")
    /\ ~loadingPlaylist
    /\ fetches = {}

\* The step in which the publish p ends.
PublishEnds(p) == pub[p].pc # "done" /\ pub'[p].pc = "done"

\* C28: a publish whose playlist was created ends with every selected entry
\* processed and with the report of the created playlist, whatever happened to
\* the items.
C28_ItemFailuresDoNotAbort ==
    [][\A p \in DOMAIN pub :
        (PublishEnds(p) /\ pub'[p].playlistId # Null)
        => /\ pub'[p].i > Len(pub'[p].selectedSongs)
           /\ isMessageBoxVisible'
           /\ messageBoxContent' = PublishedMsg(pub'[p].playlistId[1])
      ]_vars

\* What the deterministic video search answers for a selected entry without
\* a link.
FallbackAnswer(song) ==
    videoProvider[<<song.artistName, " - ", song.songTitle, " official audio">>]

\* The entry has no link and the video search finds no match for it.
Unmatched(song) ==
    /\ song.youtubeLink = Null
    /\ FallbackAnswer(song).kind = "json"
    /\ FallbackAnswer(song).videoId = Null

\* The entry has a link, or the video search finds a video for it.
Matched(song) ==
    \/ song.youtubeLink # Null
    \/ FallbackAnswer(song).kind = "json" /\ FallbackAnswer(song).videoId # Null

\* The number of positions of a sequence that hold the value.
Occurrences(seq, value) == Cardinality({k \in 1..Len(seq) : seq[k] = value})

\* C29: a publish whose playlist was created, of a batch in which every
\* entry is matched or unmatched and some entry is unmatched, ends having
\* issued an add-item request for exactly the matched entries, in order, and
\* having reported the no-video failure once per unmatched entry.
C29_PartialBatch ==
    [][\A p \in DOMAIN pub :
        LET songs == pub'[p].selectedSongs
        IN (/\ PublishEnds(p)
            /\ pub'[p].playlistId # Null
            /\ \A k \in 1..Len(songs) : Matched(songs[k]) \/ Unmatched(songs[k])
            /\ \E k \in 1..Len(songs) : Unmatched(songs[k]))
           => /\ pub'[p].added = SelectSeq([k \in 1..Len(songs) |-> k],
                                           LAMBDA k : Matched(songs[k]))
              /\ \A k \in 1..Len(songs) :
                    Unmatched(songs[k])
                    => Occurrences(pub'[p].notices, NoVideoFoundMsg(songs[k]))
                        = Cardinality({j \in 1..Len(songs) : songs[j] = songs[k]})
      ]_vars

\* The texts that report the failure of one item of the publish p.
ItemWarnings(p) ==
    UNION {{NoVideoFoundMsg(song), SearchErrorMsg(song), AddFailedMsg(song)} :
            song \in {pub[p].selectedSongs[k] : k \in 1..Len(pub[p].selectedSongs)}}

\* The text is part of what the notification shows.
Presented(visible, content, text) ==
    /\ visible
    /\ \E from \in 1..Len(content) :
            /\ from + Len(text) - 1 <= Len(content)
            /\ SubSeq(content, from, from + Len(text) - 1) = text

\* C30: when a publish whose playlist was created ends, the notification
\* shows, with the success report, the warning of every item that failed.
C30_WarningsKept ==
    [][\A p \in DOMAIN pub :
        (PublishEnds(p) /\ pub'[p].playlistId # Null /\ SuccessShown(messageBoxContent'))
        => \A k \in 1..Len(pub'[p].notices) :
                pub'[p].notices[k] \in ItemWarnings(p)
                => Presented(isMessageBoxVisible', messageBoxContent', pub'[p].notices[k])
      ]_vars

\* C31: a request of a publish is issued only when no other request of that
\* publish is outstanding; the playlist-creation request is the first one;
\* a video-search or add-item request is issued only after the creation has
\* returned the playlist, for the entry the loop is at or the next one, and
\* never for an entry before one whose item was already sent.
C31_Sequential ==
    [][\A p \in DOMAIN pub : \A r \in fetches' \ fetches :
        (r.pub = p /\ r.resp = Pending)
        => /\ {q \in fetches' : q.pub = p} = {r}
           /\ r.api = "playlists" => pub[p].pc = "idle"
           /\ r.api \in {"search", "playlistItems"}
                => /\ pub'[p].playlistId # Null
                   /\ pub[p].pc \in {"create", "search", "add"}
                   /\ r.item \in {pub[p].i, pub[p].i + 1}
                   /\ r.api = "search" => r.item = pub[p].i + 1
                   /\ \A k \in 1..Len(pub[p].added) : pub[p].added[k] < r.item
      ]_vars

\* C31 witness: a publish of two entries, the second without a link, has
\* ended after sending the item of the first, then the search and the item of
\* the second.
C31_Witness ==
    /\ pub[1].pc = "done"
    /\ Len(pub[1].selectedSongs) = 2
    /\ pub[1].selectedSongs[1].youtubeLink # Null
    /\ pub[1].selectedSongs[2].youtubeLink = Null
    /\ pub[1].added = <<1, 2>>
    /\ pub[1].i = 3

\* Video ids of one or two characters out of letters, digits, '-' and '_'.
SampleVideoIds ==
    UNION {[1..n -> {"a", "Z", "0", "-", "_"}] : n \in 1..2}

\* The requests the publish p issues in the step.
IssuedBy(p) == {r \in fetches' \ fetches : r.pub = p /\ r.resp = Pending}

\* C35: when the loop of a publish arrives at an entry with a link it issues
\* no video search but the add-item request, whose id is the one the link was
\* built from; when it arrives at an entry without a link it issues one video
\* search, and a search is issued at no other moment; and the link generation
\* builds from a video id parses back to that id.
C35_LinkReused ==
    [][/\ \A p \in DOMAIN pub :
            /\ (pub'[p].i > pub[p].i /\ pub'[p].i <= Len(pub'[p].selectedSongs))
                => LET song == pub'[p].selectedSongs[pub'[p].i]
                   IN /\ Cardinality(IssuedBy(p)) = 1
                      /\ \A r \in IssuedBy(p) :
                            /\ r.item = pub'[p].i
                            /\ IF song.youtubeLink = Null
                               THEN r.api = "search"
                               ELSE /\ r.api = "playlistItems"
                                    /\ WatchUrl \o r.url.videoId = song.youtubeLink
            /\ \A r \in IssuedBy(p) : r.api = "search" => pub'[p].i > pub[p].i
       /\ \A v \in SampleVideoIds \cup {V1, V2} :
            VideoIdOfLink(LinkOf([kind |-> "json", videoId |-> v])) = v
      ]_vars

\* C35 witness: the first entry had no link and its search found nothing; the
\* second has a link, and the add-item request carrying the id of that link
\* is outstanding.
C35_Witness ==
    /\ pub[1].pc = "add"
    /\ pub[1].i = 2
    /\ pub[1].selectedSongs[1].youtubeLink = Null
    /\ pub[1].added = <<2>>
    /\ \E r \in fetches :
            /\ r.api = "playlistItems"
            /\ r.item = 2
            /\ r.url.videoId = V1
            /\ pub[1].selectedSongs[2].youtubeLink = WatchUrl \o V1

\* The entries of the list that are ticked, as a set of positions.
SelectedPositions(list) == {k \in 1..Len(list) : list[k].selected}

\* C36: a publish holds the entries that were selected when it was called, in
\* their order, and keeps them whatever is ticked afterwards; each of its
\* video-search and add-item requests is for one of them; and no step of a
\* publish changes the playlist, the concert list, the signed-in user or the
\* access token.
C36_OnlySelected ==
    [][\A p \in DOMAIN pub :
        /\ PublishCalled(p) /\ pub'[p].pc # "done"
            => pub'[p].selectedSongs
                = SelectSeq(playlist, LAMBDA song : song.selected)
        /\ pub[p].pc \notin {"idle", "done"}
            => pub'[p].selectedSongs = pub[p].selectedSongs
        /\ \A r \in IssuedBy(p) :
            r.api \in {"search", "playlistItems"}
            => /\ r.item \in 1..Len(pub'[p].selectedSongs)
               /\ pub'[p].selectedSongs[r.item].selected
               /\ r.api = "search"
                    => r.url.q = <<pub'[p].selectedSongs[r.item].artistName, " - ",
                                   pub'[p].selectedSongs[r.item].songTitle, " official audio">>
        /\ pub'[p] # pub[p]
            => /\ playlist' = playlist
               /\ concerts' = concerts
               /\ googleUser' = googleUser
               /\ youtubeAccessToken' = youtubeAccessToken
      ]_vars

\* C36 witness: of two entries the first was not selected when the publish
\* was called; it was ticked while the publish ran, and the publish has ended
\* having sent one item, for the entry that was selected at the call.
C36_Witness ==
    /\ pub[1].pc = "done"
    /\ Len(playlist) = 2
    /\ SelectedPositions(playlist) = {1, 2}
    /\ Len(pub[1].selectedSongs) = 1
    /\ pub[1].selectedSongs[1] = playlist[2]
    /\ pub[1].added = <<1>>
    /\ pub[1].i = 2

\* C37: for every playlist and every index of an entry,
\* toggleSongSelection(index) yields a playlist of the same length in which
\* the entry at the index has its selected flag negated and its artist, song
\* and link unchanged, every other entry is unchanged, and toggling the same
\* index again yields the original playlist; a step that changes the playlist
\* is such a toggle and changes nothing else.
C37_ToggleFlipsOne ==
    [][/\ \A index \in 0..(Len(playlist) - 1) :
            LET toggled == ToggleAt(playlist, index)
            IN /\ Len(toggled) = Len(playlist)
               /\ \A k \in 1..Len(playlist) :
                    toggled[k] =
                        IF k = index + 1
                        THEN [artistName |-> playlist[k].artistName,
                              songTitle |-> playlist[k].songTitle,
                              youtubeLink |-> playlist[k].youtubeLink,
                              selected |-> ~playlist[k].selected]
                        ELSE playlist[k]
               /\ ToggleAt(toggled, index) = playlist
       /\ playlist' # playlist
            => /\ Len(playlist') = Len(playlist)
               /\ \E k \in 1..Len(playlist) :
                    /\ playlist'[k].selected = ~playlist[k].selected
                    /\ \A j \in 1..Len(playlist) :
                        /\ j # k => playlist'[j] = playlist[j]
                        /\ playlist'[j].artistName = playlist[j].artistName
                        /\ playlist'[j].songTitle = playlist[j].songTitle
                        /\ playlist'[j].youtubeLink = playlist[j].youtubeLink
               /\ UNCHANGED <<concerts, selectedConcert, loadingConcerts, error,
                              messageBoxContent, isMessageBoxVisible, config, generation,
                              flow, fetches, timers>>
      ]_vars

\* C37 witness: the first of two entries was selected when the publish was
\* called and has been unticked since; the second entry is as it was.
C37_Witness ==
    /\ pub[1].pc = "add"
    /\ Len(playlist) = 2
    /\ Len(pub[1].selectedSongs) = 2
    /\ pub[1].selectedSongs[1].selected
    /\ ~playlist[1].selected
    /\ playlist[1] = [pub[1].selectedSongs[1] EXCEPT !.selected = FALSE]
    /\ playlist[2] = pub[1].selectedSongs[2]

\* C32: the signed-in Google user and the access token are both present or
\* both absent.
C32_UserAndTokenTogether == (googleUser = Null) <=> (youtubeAccessToken = Null)

\* A request that carries the bearer token is issued in the step.
IssuesWithBearer ==
    \E r \in fetches' \ fetches : r.resp = Pending /\ WritesPlaylist(r)

\* C33: a playlist-creation or add-item request is issued only while the
\* Google session the token was obtained in is the current one: none is
\* issued once the listener has been called without a user or a sign-out has
\* completed.
C33_NoTokenAfterSessionLoss ==
    [][IssuesWithBearer => auth[1].currentUser = "google"]_vars

\* the step writes a failure into `error`, the text of the red banner
\* (every text set there but the one saying that no concert was found)
FailureInBanner == error' # error /\ error' \notin {Null, NoConcertsMsg}

\* the step leaves the message box visible with a message
BoxShown == isMessageBoxVisible' /\ messageBoxContent' # Null

\* C34: every step in which a search, a generation, a sign-in or a sign-out
\* reports a failure (it writes a failure text into `error`) leaves the
\* message box visible with a message, and so does every step that ends a
\* publish; no failure is reported through the banner alone.
C34_FailuresInMessageBox ==
    [][/\ FailureInBanner => BoxShown
       /\ \A p \in DOMAIN pub : PublishEnds(p) => BoxShown]_vars

SearchRunning(f) == flow[f].pc \notin {"idle", "done"}
GenerationRunning(g) == gen[g].pc \notin {"idle", "done"}
PublishRunning(p) == pub[p].pc \notin {"idle", "done"}
SignInRunning(k) == sign[k].pc = "popup"

\* C38: when every request in flight is answered at some time, a search that
\* got past its checks reaches its end with loadingConcerts false, and a
\* generation, a publish and a sign-in that set loadingPlaylist reach their
\* end with loadingPlaylist false, whatever the answers were.
C38_OperationsEnd ==
    /\ (\E f \in DOMAIN flow : SearchRunning(f))
            ~> ((\A f \in DOMAIN flow : ~SearchRunning(f)) /\ ~loadingConcerts)
    /\ (\E g \in DOMAIN gen : GenerationRunning(g))
            ~> ((\A g \in DOMAIN gen : ~GenerationRunning(g)) /\ ~loadingPlaylist)
    /\ (\E p \in DOMAIN pub : PublishRunning(p))
            ~> ((\A p \in DOMAIN pub : ~PublishRunning(p)) /\ ~loadingPlaylist)
    /\ (\E k \in DOMAIN sign : SignInRunning(k))
            ~> ((\A k \in DOMAIN sign : ~SignInRunning(k)) /\ ~loadingPlaylist)

\* a publish that set loadingPlaylist has ended in its catch, and the flag is
\* false again
C38_Witness ==
    /\ 1 \in DOMAIN pub
    /\ pub[1].pc = "done"
    /\ pub[1].notices # <<>>
    /\ ErrorShown(pub[1].notices[Len(pub[1].notices)])
    /\ ~loadingPlaylist

\* C39: in every state at most one search is between its first await and its
\* end, and loadingConcerts is true exactly when one is.
C39_OneSearchAtATime ==
    /\ Cardinality({f \in DOMAIN flow : InProgress(f)}) <= 1
    /\ loadingConcerts <=> \E f \in DOMAIN flow : InProgress(f)

====
